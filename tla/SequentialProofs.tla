-------------------------- MODULE SequentialProofs --------------------------
(***************************************************************************)
(* Proofs about the sequential path of Submitter.Submit, for every number  *)
(* of chunks, manifest parts, attempts and faults.                         *)
(***************************************************************************)
EXTENDS Sequential, TLAPS

-----------------------------------------------------------------------------
(***************************************************************************)
(* Type correctness.                                                       *)
(***************************************************************************)

\* The transactions send builds are transactions.
LEMMA TxTypes ==
    ASSUME NEW k \in Nat, NEW c \in Nat, NEW z \in Nat, NEW nm \in [Chunk -> Nat]
    PROVE  /\ ChunkTx(k, c) \in Tx
           /\ PartTx(k, c, z, nm) \in Tx
           /\ AnchorTx(k, c) \in Tx
           /\ DeleteTx(k) \in Tx
BY DEF ChunkTx, PartTx, AnchorTx, DeleteTx, Tx, NoNames

\* An attempt of send keeps the types of what it writes.
LEMMA AttemptType ==
    ASSUME TypeOK, NEW t \in Tx, Attempt({t})
    PROVE  /\ chain' \subseteq Tx /\ dump' \subseteq Tx
           /\ cur' \subseteq Tx /\ flight' \subseteq SUBSET Tx
           /\ att' \in 0..MaxAttempts
           /\ count' \in Nat
           /\ faults' \in 0..MaxFaults
<1>1. att \in 0..MaxAttempts /\ att < MaxAttempts /\ att' = att + 1
  BY DEF TypeOK, Attempt, Transmit
<1>2. faults' = faults \/ (faults < MaxFaults /\ faults' = faults + 1)
  BY DEF Attempt, Fault
<1>3. att' \in 0..MaxAttempts
  BY <1>1, AttemptsAssumption
<1>4. faults' \in 0..MaxFaults
  BY <1>2, PlanAssumption DEF TypeOK
<1>5. QED
  BY <1>3, <1>4 DEF TypeOK, Attempt, Transmit

\* A validated transmission, and a run that ends, keep them too.
LEMMA DeliveryType ==
    ASSUME TypeOK, Confirm \/ GiveUp \/ Tear
    PROVE  /\ chain' \subseteq Tx /\ dump' \subseteq Tx
           /\ cur' \subseteq Tx /\ flight' \subseteq SUBSET Tx
           /\ att' \in 0..MaxAttempts
BY AttemptsAssumption DEF TypeOK, Confirm, GiveUp, Tear

\* A fault stays within its bound.
LEMMA FaultType ==
    ASSUME TypeOK, Fault PROVE faults' \in 0..MaxFaults
BY PlanAssumption DEF TypeOK, Fault

\* A run that ends clears what it held.
LEMMA EndRunType ==
    ASSUME TypeOK, EndRun
    PROVE  /\ found' \subseteq Tx /\ mhash' \in Nat /\ nonce' \in Nat
           /\ pc' \in Stage /\ i' \in Nat /\ names' \in [Chunk -> Nat]
BY DEF EndRun, NoNames, Stage

\* A sealing draws a nonce prefix and records what it encrypted.
LEMMA SealType ==
    ASSUME TypeOK, NEW nm \in [Chunk -> Nat], Seal(nm)
    PROVE  /\ seals' \in Nat /\ nonce' \in Nat
           /\ sealed' \subseteq [nonce : Nat, names : [Chunk -> Nat]]
BY DEF TypeOK, Seal

\* Every variable keeps its type, over every step of Submit, DeleteAnchor,
\* the network and a crash.
THEOREM TypeCorrect == Spec => []TypeOK
<1>1. Init => TypeOK
  BY AttemptsAssumption, PlanAssumption
  DEF Init, SubmitInit, DeliveryInit, TypeOK, Stage, NoNames
<1>2. TypeOK /\ [Next]_vars => TypeOK'
  <2> SUFFICES ASSUME TypeOK, [Next]_vars PROVE TypeOK'
    OBVIOUS
  <2>1. CASE Start
    <3>1. faults' \in 0..MaxFaults
      BY <2>1, FaultType DEF Start, TypeOK
    <3>2. QED
      BY <2>1, <3>1 DEF Start, TypeOK, Stage, NoNames, deliveryVars, sealVars
  <2>2. CASE SkipChunk
    <3>1. PICK t \in Recorded(i) : names' = [names EXCEPT ![i] = t.n]
      BY <2>2 DEF SkipChunk
    <3>2. t \in Tx
      BY <3>1 DEF Recorded, TypeOK
    <3>3. t.n \in Nat
      BY <3>2 DEF Tx
    <3>4. names' \in [Chunk -> Nat]
      BY <3>1, <3>3 DEF TypeOK
    <3>5. QED
      BY <2>2, <3>4 DEF SkipChunk, TypeOK, deliveryVars, sealVars
  <2>3. CASE SendChunk
    <3>1. ChunkTx(count + 1, i) \in Tx
      BY TxTypes DEF TypeOK
    <3>2. Attempt({ChunkTx(count + 1, i)})
      BY <2>3 DEF SendChunk
    <3>3. QED
      BY <2>3, <3>1, <3>2, AttemptType DEF SendChunk, TypeOK, sealVars, runVars
  <2>4. CASE ChunkConfirmed
    <3>1. Confirm
      BY <2>4 DEF ChunkConfirmed
    <3>2. names' \in [Chunk -> Nat]
      BY <2>4 DEF ChunkConfirmed, TypeOK
    <3>3. QED
      BY <2>4, <3>1, <3>2, DeliveryType DEF ChunkConfirmed, TypeOK, sealVars
  <2>5. CASE ReuseManifest
    <3>1. PICK t \in found : mhash' = t.n
      BY <2>5 DEF ReuseManifest
    <3>2. mhash' \in Nat
      BY <3>1 DEF TypeOK, Tx
    <3>3. QED
      BY <2>5, <3>2 DEF ReuseManifest, TypeOK, Stage, deliveryVars, sealVars
  <2>6. CASE SealManifest
    BY <2>6, SealType DEF SealManifest, TypeOK, Stage, deliveryVars
  <2>7. CASE SendPart
    <3>1. PartTx(count + 1, i, nonce, names) \in Tx
      BY TxTypes DEF TypeOK
    <3>2. Attempt({PartTx(count + 1, i, nonce, names)})
      BY <2>7 DEF SendPart
    <3>3. QED
      BY <2>7, <3>1, <3>2, AttemptType DEF SendPart, TypeOK, sealVars, runVars
  <2>8. CASE PartConfirmed
    BY <2>8, DeliveryType DEF PartConfirmed, TypeOK, Stage, sealVars
  <2>9. CASE SendAnchor
    <3>1. AnchorTx(count + 1, mhash) \in Tx
      BY TxTypes DEF TypeOK
    <3>2. Attempt({AnchorTx(count + 1, mhash)})
      BY <2>9 DEF SendAnchor
    <3>3. QED
      BY <2>9, <3>1, <3>2, AttemptType DEF SendAnchor, TypeOK, sealVars, runVars
  <2>10. CASE AnchorConfirmed
    BY <2>10, DeliveryType DEF AnchorConfirmed, TypeOK, Stage, sealVars
  <2>11. CASE SaveDID
    BY <2>11 DEF SaveDID, TypeOK, Stage, deliveryVars, sealVars
  <2>12. CASE SendDelete
    <3>1. DeleteTx(count + 1) \in Tx
      BY TxTypes DEF TypeOK
    <3>2. Attempt({DeleteTx(count + 1)})
      BY <2>12 DEF SendDelete
    <3>3. QED
      BY <2>12, <3>1, <3>2, AttemptType DEF SendDelete, TypeOK, sealVars, runVars
  <2>13. CASE DeleteConfirmed
    BY <2>13, DeliveryType DEF DeleteConfirmed, TypeOK, Stage, sealVars
  <2>14. CASE ClearDID
    BY <2>14 DEF ClearDID, TypeOK, Stage, deliveryVars, sealVars
  <2>15. CASE Abort
    BY <2>15, DeliveryType, FaultType, EndRunType DEF Abort, TypeOK, sealVars
  <2>16. CASE Exhausted
    BY <2>16, DeliveryType, EndRunType DEF Exhausted, TypeOK, sealVars
  <2>17. CASE TornSave
    <3>1. /\ chain' \subseteq Tx /\ dump' \subseteq Tx /\ cur' \subseteq Tx
          /\ flight' \subseteq SUBSET Tx /\ att' \in 0..MaxAttempts
      BY <2>17, DeliveryType DEF TornSave, TypeOK
    <3>2. QED
      BY <2>17, <3>1, FaultType, EndRunType DEF TornSave, TypeOK, sealVars
  <2>18. CASE SwitchNetwork
    BY <2>18, FaultType DEF SwitchNetwork, TypeOK, sealVars, runVars
  <2>19. CASE NetworkLand
    <3>1. PICK txs \in flight :
            /\ Land(txs)
            /\ \/ \E t \in txs : t.kind = "anchor" /\ did' = t.ref
               \/ did' = 0
               \/ did' = did
      BY <2>19 DEF NetworkLand
    <3>2. txs \subseteq Tx
      BY DEF TypeOK
    <3>3. did' \in Nat
      BY <3>1, <3>2 DEF TypeOK, Tx
    <3>4. QED
      BY <2>19, <3>1, <3>2, <3>3 DEF NetworkLand, Land, TypeOK, sealVars, runVars
  <2>20. CASE NetworkVoid
    BY <2>20, FaultType DEF NetworkVoid, Void, TypeOK, sealVars, runVars
  <2>21. CASE UNCHANGED vars
    BY <2>21 DEF vars, submitVars, deliveryVars, sealVars, runVars, TypeOK
  <2>22. QED
    BY <2>1, <2>2, <2>3, <2>4, <2>5, <2>6, <2>7, <2>8, <2>9, <2>10, <2>11, <2>12,
       <2>13, <2>14, <2>15, <2>16, <2>17, <2>18, <2>19, <2>20, <2>21
    DEF Next, Step, Stop, Environment
<1>3. QED
  BY <1>1, <1>2, PTL DEF Spec

-----------------------------------------------------------------------------
(***************************************************************************)
(* What is kept stays enough: facts about growing sets of transactions.    *)
(***************************************************************************)

\* Chunks that are present stay present in a larger set.
LEMMA ChunksInGrows ==
    ASSUME NEW S, NEW T, NEW nm, S \subseteq T, ChunksIn(S, nm)
    PROVE  ChunksIn(T, nm)
BY DEF ChunksIn

\* What restores a backup still does when there is more of it.
LEMMA RestorableGrows ==
    ASSUME NEW S, NEW T, NEW r, S \subseteq T, Restorable(S, r)
    PROVE  Restorable(T, r)
<1>1. PICK t \in S : /\ t.kind = "manifest" /\ t.idx = 0 /\ t.n = r
                     /\ PartsIn(S, t.nonce, t.names)
                     /\ ChunksIn(S, t.names)
  BY DEF Restorable
<1>2. PartsIn(T, t.nonce, t.names)
  BY <1>1 DEF PartsIn
<1>3. ChunksIn(T, t.names)
  BY <1>1 DEF ChunksIn
<1>4. QED
  BY <1>1, <1>2, <1>3 DEF Restorable

\* A manifest all of whose parts and chunks are in S makes S restorable.
LEMMA CompleteRestorable ==
    ASSUME NEW S, NEW k, NEW z, NEW nm,
           PartTx(k, 0, z, nm) \in S, PartsIn(S, z, nm), ChunksIn(S, nm)
    PROVE  Restorable(S, k)
<1> DEFINE t == PartTx(k, 0, z, nm)
<1>1. t.kind = "manifest" /\ t.idx = 0 /\ t.n = k /\ t.nonce = z /\ t.names = nm
  BY DEF PartTx
<1>2. QED
  BY <1>1 DEF Restorable

-----------------------------------------------------------------------------
(***************************************************************************)
(* NetSafe, effect by effect.                                              *)
(***************************************************************************)

\* A step that leaves ledger, flight, dump transactions and seals alone.
LEMMA NetKept ==
    ASSUME NetSafe, UNCHANGED <<chain, flight, dump, did, count, seals, sealed>>
    PROVE  NetSafe'
BY DEF NetSafe, AllGenuine, NoncesDrawn, NonceUnique, NamesPresent, FlightSafe, AnchorSound

\* send transmits t: what t names is on the ledger already.
LEMMA NetAttempt ==
    ASSUME TypeOK, NetSafe, NEW t, Attempt({t}), UNCHANGED <<did, seals, sealed>>,
           Genuine(t, count + 1, sealed),
           t.kind = "manifest" => ChunksIn(chain, t.names),
           t.kind = "anchor" => Restorable(chain, t.ref)
    PROVE  NetSafe'
<1>1. /\ flight' = flight \cup {{t}}
      /\ count' = count + 1
      /\ UNCHANGED <<chain, dump>>
  BY DEF Attempt, Transmit
<1>2. \A u \in Tx : Genuine(u, count, sealed) => Genuine(u, count + 1, sealed)
  BY DEF Genuine, Tx, TypeOK
<1>3. AllGenuine'
  BY <1>1, <1>2 DEF NetSafe, AllGenuine, TypeOK
<1>4. FlightSafe'
  <2> SUFFICES ASSUME NEW g \in flight'
               PROVE  \E u \in g : /\ g = {u}
                                   /\ Genuine(u, count', sealed')
                                   /\ u.kind = "manifest" => ChunksIn(chain', u.names)
                                   /\ u.kind = "anchor" => Restorable(chain', u.ref)
    BY DEF FlightSafe
  <2>1. CASE g = {t}
    BY <2>1, <1>1
  <2>2. CASE g \in flight
    <3>1. PICK u \in g : /\ g = {u}
                         /\ Genuine(u, count, sealed)
                         /\ u.kind = "manifest" => ChunksIn(chain, u.names)
                         /\ u.kind = "anchor" => Restorable(chain, u.ref)
      BY <2>2 DEF NetSafe, FlightSafe
    <3>2. u \in Tx
      BY <2>2 DEF TypeOK
    <3>3. QED
      BY <3>1, <3>2, <1>1, <1>2
  <2>3. QED
    BY <2>1, <2>2, <1>1
<1>5. QED
  BY <1>1, <1>3, <1>4 DEF NetSafe, NoncesDrawn, NonceUnique, NamesPresent, AnchorSound

\* send records a validated transaction: what it names is in the dump.
LEMMA NetConfirm ==
    ASSUME NetSafe, NEW t, Confirm, cur = {t},
           UNCHANGED <<did, count, seals, sealed>>,
           t.kind = "manifest" => ChunksIn(dump, t.names)
    PROVE  NetSafe'
<1>1. /\ t \in chain
      /\ dump' = dump \cup {t}
      /\ UNCHANGED <<chain, flight>>
  BY DEF Confirm
<1>2. AllGenuine'
  BY <1>1 DEF NetSafe, AllGenuine
<1>3. NamesPresent(dump')
  BY <1>1, ChunksInGrows DEF NetSafe, NamesPresent
<1>4. QED
  BY <1>1, <1>2, <1>3
  DEF NetSafe, NoncesDrawn, NonceUnique, NamesPresent, FlightSafe, AnchorSound

\* The dump file is lost.
LEMMA NetTear ==
    ASSUME NetSafe, dump' = {}, UNCHANGED <<chain, flight, did, count, seals, sealed>>
    PROVE  NetSafe'
BY DEF NetSafe, AllGenuine, NoncesDrawn, NonceUnique, NamesPresent, FlightSafe, AnchorSound

\* A manifest is sealed under a nonce no earlier sealing used.
LEMMA NetSeal ==
    ASSUME TypeOK, NetSafe, Seal(names), UNCHANGED <<chain, flight, dump, did, count>>
    PROVE  NetSafe'
<1> DEFINE s == [nonce |-> seals + 1, names |-> names]
<1>1. seals' = seals + 1 /\ sealed' = sealed \cup {s}
  BY DEF Seal
<1>2. \A u : Genuine(u, count, sealed) => Genuine(u, count, sealed')
  BY <1>1 DEF Genuine
<1>3. AllGenuine'
  BY <1>2 DEF NetSafe, AllGenuine
<1>4. FlightSafe'
  BY <1>2 DEF NetSafe, FlightSafe
<1>5. \A u \in sealed : u.nonce \in Nat /\ u.nonce <= seals
  BY DEF NetSafe, NoncesDrawn, TypeOK
<1>6. NoncesDrawn'
  BY <1>1, <1>5 DEF NoncesDrawn, TypeOK
<1>7. NonceUnique'
  <2> SUFFICES ASSUME NEW u \in sealed', NEW v \in sealed', u.nonce = v.nonce
               PROVE  u.names = v.names
    BY DEF NonceUnique
  <2>1. CASE u \in sealed /\ v \in sealed
    BY <2>1 DEF NetSafe, NonceUnique
  <2>2. CASE u = s /\ v \in sealed
    BY <2>2, <1>5 DEF TypeOK
  <2>3. CASE u \in sealed /\ v = s
    BY <2>3, <1>5 DEF TypeOK
  <2>4. QED
    BY <2>1, <2>2, <2>3, <1>1
<1>8. QED
  BY <1>3, <1>4, <1>6, <1>7 DEF NetSafe, NamesPresent, AnchorSound

\* A ledger closes with one of the transmissions in flight.
LEMMA NetLand ==
    ASSUME TypeOK, NetSafe, NetworkLand
    PROVE  NetSafe'
<1>1. PICK txs \in flight :
        /\ Land(txs)
        /\ \/ \E t \in txs : t.kind = "anchor" /\ did' = t.ref
           \/ did' = 0
           \/ did' = did
  BY DEF NetworkLand
<1>2. /\ chain' = chain \cup txs /\ flight' = {}
      /\ UNCHANGED <<dump, count, seals, sealed>>
  BY <1>1 DEF Land, NetworkLand, sealVars
<1>3. PICK t \in txs : /\ txs = {t}
                       /\ Genuine(t, count, sealed)
                       /\ t.kind = "manifest" => ChunksIn(chain, t.names)
                       /\ t.kind = "anchor" => Restorable(chain, t.ref)
  BY DEF NetSafe, FlightSafe
<1>4. AllGenuine'
  BY <1>2, <1>3 DEF NetSafe, AllGenuine
<1>5. NamesPresent(chain')
  BY <1>2, <1>3, ChunksInGrows DEF NetSafe, NamesPresent
<1>6. AnchorSound'
  BY <1>1, <1>2, <1>3, RestorableGrows DEF NetSafe, AnchorSound
<1>7. QED
  BY <1>2, <1>4, <1>5, <1>6
  DEF NetSafe, NoncesDrawn, NonceUnique, NamesPresent, FlightSafe

\* Using up the sequence number leaves what landed and what is recorded.
LEMMA NetVoid ==
    ASSUME NetSafe, NetworkVoid
    PROVE  NetSafe'
BY DEF NetworkVoid, Void, sealVars, NetSafe, AllGenuine, NoncesDrawn, NonceUnique,
       NamesPresent, FlightSafe, AnchorSound

\* Another network: nothing of the plan is on it.
LEMMA NetSwitch ==
    ASSUME NetSafe, SwitchNetwork
    PROVE  NetSafe'
BY DEF SwitchNetwork, sealVars, NetSafe, AllGenuine, NoncesDrawn, NonceUnique,
       NamesPresent, FlightSafe, AnchorSound

-----------------------------------------------------------------------------
(***************************************************************************)
(* RunSafe, effect by effect.                                              *)
(***************************************************************************)

\* A run that has ended believes nothing.
LEMMA RunEnds ==
    ASSUME EndRun, cur' = {}
    PROVE  RunSafe'
<1>1. pc' = "idle" /\ found' = {}
  BY DEF EndRun
<1>2. StageSafe'
  BY <1>1 DEF StageSafe
<1>3. QED
  BY <1>1, <1>2 DEF RunSafe, CurSafe, LandedSafe, DIDSettled

\* A stage keeps what it has behind it while the ledger and the dump grow.
LEMMA StageKept ==
    ASSUME StageSafe, Kept \subseteq Kept', sealed' = sealed,
           UNCHANGED <<pc, i, found, names, nonce, mhash>>
    PROVE  StageSafe'
<1>1. ChunksIn(Kept, names) => ChunksIn(Kept', names)
  BY ChunksInGrows
<1>2. Restorable(Kept, mhash) => Restorable(Kept', mhash)
  BY RestorableGrows
<1>3. QED
  BY <1>1, <1>2 DEF StageSafe

\* A transmission that has just been sent has not landed.
LEMMA RunAttempt ==
    ASSUME TypeOK, Consistent, NEW t, t.n = count + 1, Attempt({t}),
           UNCHANGED <<did, dumpDID, sealed, pc, i, found, names, nonce, mhash>>,
           pc \in {"chunk", "part", "anchor", "delete"}
    PROVE  LandedSafe' /\ StageSafe' /\ DIDSettled'
<1>1. cur' = {t} /\ UNCHANGED <<chain, dump>>
  BY DEF Attempt, Transmit
<1>2. \A u \in chain : u.n \in Nat /\ u.n <= count
  BY DEF Consistent, NetSafe, AllGenuine, Genuine, TypeOK, Tx
<1>3. t \notin chain
  BY <1>2 DEF TypeOK
<1>4. LandedSafe'
  BY <1>1, <1>3 DEF LandedSafe
<1>5. StageSafe'
  <2>1. Kept \subseteq Kept'
    BY <1>1 DEF Kept
  <2>2. QED
    BY <2>1, StageKept DEF Consistent, RunSafe
<1>6. DIDSettled'
  BY DEF Consistent, RunSafe, DIDSettled
<1>7. QED
  BY <1>4, <1>5, <1>6

\* A validated transmission is recorded next to what was recorded before.
LEMMA KeptConfirm ==
    ASSUME Confirm
    PROVE  Kept' = Kept \cup cur /\ cur' = {} /\ flight' = flight
BY DEF Confirm, Kept

\* The manifest a resume scan finds complete is restorable: its parts agree
\* on the chunks they name, for no nonce was used twice.
LEMMA ReuseRestorable ==
    ASSUME TypeOK, Consistent, NEW t \in found, CompleteManifest(t)
    PROVE  Restorable(Kept, t.n)
<1>1. found \subseteq chain /\ found \subseteq dump
  BY DEF Consistent, RunSafe, StageSafe, Kept
<1>2. \A u \in found : u.kind = "manifest" =>
        /\ u = PartTx(u.n, u.idx, u.nonce, u.names)
        /\ [nonce |-> u.nonce, names |-> u.names] \in sealed
  <2> SUFFICES ASSUME NEW u \in found, u.kind = "manifest"
               PROVE  /\ u = PartTx(u.n, u.idx, u.nonce, u.names)
                      /\ [nonce |-> u.nonce, names |-> u.names] \in sealed
    OBVIOUS
  <2>1. Genuine(u, count, sealed)
    BY <1>1 DEF Consistent, NetSafe, AllGenuine
  <2>2. QED
    BY <2>1 DEF Genuine, ChunkTx, PartTx, AnchorTx, DeleteTx
<1>3. t = PartTx(t.n, 0, t.nonce, t.names) /\ t \in Kept /\ t.kind = "manifest"
  BY <1>1, <1>2 DEF CompleteManifest, Kept
<1>4. PartsIn(Kept, t.nonce, t.names)
  <2> SUFFICES ASSUME NEW j \in Part
               PROVE  \E u \in Kept : u = PartTx(u.n, j, t.nonce, t.names)
    BY DEF PartsIn
  <2>1. PICK u \in found : u.kind = "manifest" /\ u.idx = j /\ u.nonce = t.nonce
    BY DEF CompleteManifest
  <2> DEFINE su == [nonce |-> u.nonce, names |-> u.names]
             tt == [nonce |-> t.nonce, names |-> t.names]
  <2>2. su \in sealed /\ tt \in sealed
    BY <1>2, <1>3, <2>1
  <2>3. su.nonce = tt.nonce => su.names = tt.names
    BY <2>2 DEF Consistent, NetSafe, NonceUnique
  <2>4. u.names = t.names
    BY <2>1, <2>3
  <2>5. u = PartTx(u.n, j, t.nonce, t.names)
    BY <1>2, <2>1, <2>4
  <2>6. QED
    BY <1>1, <2>5 DEF Kept
<1>5. ChunksIn(Kept, t.names)
  <2>1. ChunksIn(chain, t.names) /\ ChunksIn(dump, t.names)
    BY <1>1, <1>3 DEF Consistent, NetSafe, NamesPresent
  <2>2. QED
    BY <2>1 DEF ChunksIn, Kept
<1>6. QED
  BY <1>3, <1>4, <1>5, CompleteRestorable

\* The anchor a run waits for is the DID entry when it has landed; so is its
\* absence after a delete.
LEMMA RunLand ==
    ASSUME TypeOK, Consistent, NetworkLand
    PROVE  RunSafe'
<1>1. PICK txs \in flight :
        /\ Land(txs)
        /\ \/ \E t \in txs : t.kind = "anchor" /\ did' = t.ref
           \/ (\E t \in txs : t.kind = "delete") /\ did' = 0
           \/ (\A t \in txs : t.kind \notin {"anchor", "delete"}) /\ did' = did
  BY DEF NetworkLand
<1>2. /\ chain' = chain \cup txs /\ flight' = {}
      /\ UNCHANGED <<cur, att, dump, dumpDID, count, seals, sealed, faults>>
      /\ UNCHANGED <<pc, i, found, names, nonce, mhash>>
  BY <1>1 DEF Land, NetworkLand, sealVars, runVars
<1>3. PICK t \in txs : txs = {t}
  BY DEF Consistent, NetSafe, FlightSafe
<1>4. CurSafe'
  BY <1>2 DEF Consistent, RunSafe, CurSafe, Recorded
<1>5. LandedSafe'
  <2> SUFFICES ASSUME cur # {}, cur \subseteq chain'
               PROVE  (pc = "anchor" => did' = mhash) /\ (pc = "delete" => did' = 0)
    BY <1>2 DEF LandedSafe
  <2>1. ~(cur \subseteq chain)
    BY <1>1 DEF Consistent, RunSafe, LandedSafe
  <2>2. CASE pc = "anchor"
    <3>1. cur = {AnchorTx(count, mhash)}
      BY <2>2 DEF Consistent, RunSafe, CurSafe
    <3>2. t = AnchorTx(count, mhash)
      BY <3>1, <2>1, <1>2, <1>3
    <3>3. QED
      BY <2>2, <3>2, <1>1, <1>3 DEF AnchorTx
  <2>3. CASE pc = "delete"
    <3>1. cur = {DeleteTx(count)}
      BY <2>3 DEF Consistent, RunSafe, CurSafe
    <3>2. t = DeleteTx(count)
      BY <3>1, <2>1, <1>2, <1>3
    <3>3. QED
      BY <2>3, <3>2, <1>1, <1>3 DEF DeleteTx
  <2>4. QED
    BY <2>2, <2>3
<1>6. StageSafe'
  <2>1. Kept \subseteq Kept'
    BY <1>2 DEF Kept
  <2>2. QED
    BY <2>1, <1>2, StageKept DEF Consistent, RunSafe
<1>7. DIDSettled'
  BY <1>1, <1>2 DEF Consistent, RunSafe, DIDSettled
<1>8. QED
  BY <1>4, <1>5, <1>6, <1>7 DEF RunSafe

-----------------------------------------------------------------------------
(***************************************************************************)
(* Consistent is inductive, action by action.                              *)
(***************************************************************************)

\* Outside the four stages that send there is nothing to wait for.
LEMMA NothingSent ==
    ASSUME CurSafe, pc \notin {"chunk", "part", "anchor", "delete"}
    PROVE  cur = {}
BY DEF CurSafe

\* The resume scan counts what is recorded and on the ledger.
LEMMA StartSafe ==
    ASSUME TypeOK, Consistent, Start PROVE Consistent'
<1>1. NetSafe'
  BY NetKept DEF Consistent, Start, deliveryVars, sealVars
<1>2. cur = {}
  BY NothingSent DEF Consistent, RunSafe, Start
<1>3. /\ pc' = "chunk" /\ i' = 0 /\ found' \subseteq chain \cap dump
      /\ UNCHANGED <<chain, dump, cur>>
  BY DEF Start, deliveryVars
<1>4. StageSafe'
  BY <1>3, PlanAssumption DEF StageSafe, Kept, Chunk
<1>5. QED
  BY <1>1, <1>2, <1>3, <1>4 DEF Consistent, RunSafe, CurSafe, LandedSafe, DIDSettled

\* A recorded chunk is on the ledger under the name the manifest will use.
LEMMA SkipChunkSafe ==
    ASSUME TypeOK, Consistent, SkipChunk PROVE Consistent'
<1>1. NetSafe'
  BY NetKept DEF Consistent, SkipChunk, deliveryVars, sealVars
<1>2. PICK t \in Recorded(i) : names' = [names EXCEPT ![i] = t.n]
  BY DEF SkipChunk
<1>3. cur = {}
  BY <1>2 DEF Consistent, RunSafe, CurSafe, SkipChunk
<1>4. t \in Kept /\ t.kind = "chunk" /\ t.idx = i
  BY DEF Recorded, Consistent, RunSafe, StageSafe
<1>5. t = ChunkTx(t.n, i)
  <2>1. Genuine(t, count, sealed)
    BY <1>4 DEF Consistent, NetSafe, AllGenuine, Kept
  <2>2. QED
    BY <2>1, <1>4 DEF Genuine, ChunkTx, PartTx, AnchorTx, DeleteTx
<1>6. /\ pc = "chunk" /\ i < NChunks /\ i' = i + 1
      /\ UNCHANGED <<chain, dump, cur, flight, did, dumpDID, pc, found>>
  BY DEF SkipChunk, deliveryVars
<1>7. \A c \in Chunk : c < i + 1 => ChunkTx(names'[c], c) \in Kept
  <2> SUFFICES ASSUME NEW c \in Chunk, c < i + 1
               PROVE  ChunkTx(names'[c], c) \in Kept
    OBVIOUS
  <2>1. CASE c = i
    BY <2>1, <1>2, <1>4, <1>5 DEF TypeOK
  <2>2. CASE c # i
    <3>1. c < i
      BY <2>2, PlanAssumption DEF TypeOK, Chunk
    <3>2. names'[c] = names[c]
      BY <2>2, <1>2 DEF TypeOK
    <3>3. QED
      BY <3>1, <3>2, <1>6 DEF Consistent, RunSafe, StageSafe
  <2>3. QED
    BY <2>1, <2>2
<1>8. i + 1 <= NChunks
  BY <1>6, PlanAssumption DEF TypeOK
<1>9. StageSafe'
  BY <1>6, <1>7, <1>8 DEF StageSafe, Kept, Consistent, RunSafe
<1>10. QED
  BY <1>1, <1>3, <1>6, <1>9 DEF Consistent, RunSafe, CurSafe, LandedSafe, DIDSettled

\* An attempt at chunk i, the first one or a later one.
LEMMA SendChunkSafe ==
    ASSUME TypeOK, Consistent, SendChunk PROVE Consistent'
<1> DEFINE t == ChunkTx(count + 1, i)
<1>1. /\ pc = "chunk" /\ i < NChunks /\ Recorded(i) = {}
      /\ Attempt({t})
      /\ UNCHANGED <<did, dumpDID, seals, sealed, pc, i, found, names, nonce, mhash>>
  BY DEF SendChunk, sealVars, runVars
<1>2. t.kind = "chunk" /\ t.n = count + 1 /\ t = ChunkTx(t.n, t.idx)
  BY DEF ChunkTx
<1>3. Genuine(t, count + 1, sealed)
  BY <1>2 DEF Genuine, TypeOK
<1>4. NetSafe'
  BY <1>1, <1>2, <1>3, NetAttempt DEF Consistent
<1>5. LandedSafe' /\ StageSafe' /\ DIDSettled'
  BY <1>1, <1>2, RunAttempt
<1>6. count' = count + 1 /\ cur' = {t}
  BY <1>1 DEF Attempt, Transmit
<1>7. CurSafe'
  BY <1>1, <1>6 DEF CurSafe, Recorded
<1>8. QED
  BY <1>4, <1>5, <1>7 DEF Consistent, RunSafe

\* A validated chunk is recorded before the loop goes on.
LEMMA ChunkConfirmedSafe ==
    ASSUME TypeOK, Consistent, ChunkConfirmed PROVE Consistent'
<1> DEFINE t == ChunkTx(count, i)
<1>1. /\ pc = "chunk" /\ Confirm
      /\ names' = [names EXCEPT ![i] = count] /\ i' = i + 1
      /\ UNCHANGED <<did, dumpDID, count, seals, sealed, pc, found>>
  BY DEF ChunkConfirmed, sealVars
<1>2. cur = {t} /\ i < NChunks
  BY <1>1 DEF Consistent, RunSafe, CurSafe, Confirm
<1>3. t.kind = "chunk"
  BY DEF ChunkTx
<1>4. NetSafe'
  BY <1>1, <1>2, <1>3, NetConfirm DEF Consistent
<1>5. Kept' = Kept \cup {t} /\ cur' = {}
  BY <1>1, <1>2, KeptConfirm
<1>6. \A c \in Chunk : c < i + 1 => ChunkTx(names'[c], c) \in Kept'
  <2> SUFFICES ASSUME NEW c \in Chunk, c < i + 1
               PROVE  ChunkTx(names'[c], c) \in Kept'
    OBVIOUS
  <2>1. CASE c = i
    BY <2>1, <1>1, <1>5 DEF TypeOK
  <2>2. CASE c # i
    <3>1. c < i
      BY <2>2, PlanAssumption DEF TypeOK, Chunk
    <3>2. names'[c] = names[c]
      BY <2>2, <1>1 DEF TypeOK
    <3>3. QED
      BY <3>1, <3>2, <1>1, <1>5 DEF Consistent, RunSafe, StageSafe
  <2>3. QED
    BY <2>1, <2>2
<1>7. i + 1 <= NChunks
  BY <1>2, PlanAssumption DEF TypeOK
<1>8. StageSafe'
  BY <1>1, <1>5, <1>6, <1>7 DEF StageSafe, Consistent, RunSafe
<1>9. QED
  BY <1>1, <1>4, <1>5, <1>8 DEF Consistent, RunSafe, CurSafe, LandedSafe, DIDSettled

\* A complete manifest the scan confirmed has its chunks confirmed too.
LEMMA ReuseManifestSafe ==
    ASSUME TypeOK, Consistent, ReuseManifest PROVE Consistent'
<1>1. NetSafe'
  BY NetKept DEF Consistent, ReuseManifest, deliveryVars, sealVars
<1>2. PICK t \in found : CompleteManifest(t) /\ mhash' = t.n
  BY DEF ReuseManifest
<1>3. Restorable(Kept, mhash')
  BY <1>2, ReuseRestorable
<1>4. /\ pc = "chunk" /\ i = NChunks /\ pc' = "anchor"
      /\ UNCHANGED <<chain, dump, cur, found>>
  BY DEF ReuseManifest, deliveryVars
<1>5. cur = {}
  BY <1>4, PlanAssumption DEF Consistent, RunSafe, CurSafe
<1>6. StageSafe'
  <2>1. Restorable(Kept', mhash')
    BY <1>3, <1>4 DEF Kept
  <2>2. found' \subseteq Kept'
    BY <1>4 DEF Kept, Consistent, RunSafe, StageSafe
  <2>3. QED
    BY <1>4, <2>1, <2>2 DEF StageSafe
<1>7. QED
  BY <1>1, <1>4, <1>5, <1>6 DEF Consistent, RunSafe, CurSafe, LandedSafe, DIDSettled

\* A sealing names the chunks of the finished loop under a fresh nonce.
LEMMA SealManifestSafe ==
    ASSUME TypeOK, Consistent, SealManifest PROVE Consistent'
<1>1. /\ pc = "chunk" /\ i = NChunks /\ Seal(names) /\ pc' = "part" /\ i' = 0
      /\ UNCHANGED <<chain, flight, dump, cur, did, dumpDID, count, found, names, mhash>>
  BY DEF SealManifest, deliveryVars
<1>2. NetSafe'
  BY <1>1, NetSeal DEF Consistent
<1>3. cur = {}
  BY <1>1, PlanAssumption DEF Consistent, RunSafe, CurSafe
<1>4. ChunksIn(Kept', names')
  <2>1. \A c \in Chunk : c < i
    BY <1>1, PlanAssumption DEF Chunk
  <2>2. QED
    BY <1>1, <2>1 DEF Consistent, RunSafe, StageSafe, ChunksIn, Kept
<1>5. [nonce |-> nonce', names |-> names'] \in sealed'
  BY <1>1 DEF Seal
<1>6. i' < NParts /\ ~(i' > 0) /\ \A j \in Part : ~(j < i')
  BY <1>1, PlanAssumption DEF Part
<1>7. StageSafe'
  <2>1. found' \subseteq Kept'
    BY <1>1 DEF Kept, Consistent, RunSafe, StageSafe
  <2>2. QED
    BY <1>1, <1>4, <1>5, <1>6, <2>1 DEF StageSafe
<1>8. QED
  BY <1>1, <1>2, <1>3, <1>7 DEF Consistent, RunSafe, CurSafe, LandedSafe, DIDSettled

\* An attempt at a manifest part goes out over chunks that landed.
LEMMA SendPartSafe ==
    ASSUME TypeOK, Consistent, SendPart PROVE Consistent'
<1> DEFINE t == PartTx(count + 1, i, nonce, names)
<1>1. /\ pc = "part" /\ Attempt({t})
      /\ UNCHANGED <<did, dumpDID, seals, sealed, pc, i, found, names, nonce, mhash>>
  BY DEF SendPart, sealVars, runVars
<1>2. /\ t.kind = "manifest" /\ t.n = count + 1 /\ t.nonce = nonce /\ t.names = names
      /\ t = PartTx(t.n, t.idx, t.nonce, t.names)
  BY DEF PartTx
<1>3. ChunksIn(Kept, names) /\ [nonce |-> nonce, names |-> names] \in sealed
  BY <1>1 DEF Consistent, RunSafe, StageSafe
<1>4. Genuine(t, count + 1, sealed)
  BY <1>2, <1>3 DEF Genuine, TypeOK
<1>5. ChunksIn(chain, t.names)
  BY <1>2, <1>3 DEF ChunksIn, Kept
<1>6. NetSafe'
  BY <1>1, <1>2, <1>4, <1>5, NetAttempt DEF Consistent
<1>7. LandedSafe' /\ StageSafe' /\ DIDSettled'
  BY <1>1, <1>2, RunAttempt
<1>8. count' = count + 1 /\ cur' = {t}
  BY <1>1 DEF Attempt, Transmit
<1>9. CurSafe'
  BY <1>1, <1>8 DEF CurSafe
<1>10. QED
  BY <1>6, <1>7, <1>9 DEF Consistent, RunSafe

\* After the last part the manifest the anchor will name is whole.
LEMMA PartConfirmedSafe ==
    ASSUME TypeOK, Consistent, PartConfirmed PROVE Consistent'
<1> DEFINE t == PartTx(count, i, nonce, names)
<1>1. /\ pc = "part" /\ Confirm
      /\ mhash' = (IF i = 0 THEN count ELSE mhash)
      /\ i' = i + 1
      /\ pc' = (IF i + 1 = NParts THEN "anchor" ELSE "part")
      /\ UNCHANGED <<did, dumpDID, count, seals, sealed, found, names, nonce>>
  BY DEF PartConfirmed, sealVars
<1>2. cur = {t}
  BY <1>1 DEF Consistent, RunSafe, CurSafe, Confirm
<1>3. /\ t.kind = "manifest" /\ t.names = names /\ t.n = count
      /\ t = PartTx(t.n, i, nonce, names)
  BY DEF PartTx
<1>4. /\ i < NParts /\ ChunksIn(Kept, names)
      /\ [nonce |-> nonce, names |-> names] \in sealed
      /\ \A j \in Part : j < i => \E u \in Kept : u = PartTx(u.n, j, nonce, names)
      /\ i > 0 => PartTx(mhash, 0, nonce, names) \in Kept
      /\ found \subseteq Kept
  BY <1>1 DEF Consistent, RunSafe, StageSafe
<1>5. NetSafe'
  <2>1. ChunksIn(dump, t.names)
    BY <1>3, <1>4 DEF ChunksIn, Kept
  <2>2. QED
    BY <1>1, <1>2, <2>1, NetConfirm DEF Consistent
<1>6. Kept' = Kept \cup {t} /\ cur' = {}
  BY <1>1, <1>2, KeptConfirm
<1>7. ChunksIn(Kept', names)
  BY <1>4, <1>6, ChunksInGrows
<1>8. \A j \in Part : j < i + 1 => \E u \in Kept' : u = PartTx(u.n, j, nonce, names)
  <2> SUFFICES ASSUME NEW j \in Part, j < i + 1
               PROVE  \E u \in Kept' : u = PartTx(u.n, j, nonce, names)
    OBVIOUS
  <2>1. CASE j = i
    BY <2>1, <1>3, <1>6
  <2>2. CASE j # i
    <3>1. j < i
      BY <2>2, PlanAssumption DEF TypeOK, Part
    <3>2. QED
      BY <3>1, <1>4, <1>6
  <2>3. QED
    BY <2>1, <2>2
<1>9. PartTx(mhash', 0, nonce, names) \in Kept'
  <2>1. CASE i = 0
    BY <2>1, <1>1, <1>6
  <2>2. CASE i # 0
    BY <2>2, <1>1, <1>4, <1>6 DEF TypeOK
  <2>3. QED
    BY <2>1, <2>2
<1>10. StageSafe'
  <2>1. CASE i + 1 = NParts
    <3>1. PartsIn(Kept', nonce, names)
      BY <2>1, <1>8, PlanAssumption DEF PartsIn, Part, TypeOK
    <3>2. Restorable(Kept', mhash')
      BY <3>1, <1>7, <1>9, CompleteRestorable
    <3>3. pc' = "anchor" /\ found' \subseteq Kept'
      BY <2>1, <1>1, <1>4, <1>6
    <3>4. QED
      BY <3>2, <3>3 DEF StageSafe
  <2>2. CASE i + 1 # NParts
    <3>1. i + 1 < NParts
      BY <2>2, <1>4, PlanAssumption DEF TypeOK
    <3>2. pc' = "part" /\ found' \subseteq Kept'
      BY <2>2, <1>1, <1>4, <1>6
    <3>3. QED
      BY <3>1, <3>2, <1>1, <1>4, <1>7, <1>8, <1>9 DEF StageSafe
  <2>3. QED
    BY <2>1, <2>2
<1>11. pc' \in {"part", "anchor"}
  BY <1>1
<1>12. QED
  BY <1>5, <1>6, <1>10, <1>11 DEF Consistent, RunSafe, CurSafe, LandedSafe, DIDSettled

\* An attempt at the anchor names a manifest that is whole.
LEMMA SendAnchorSafe ==
    ASSUME TypeOK, Consistent, SendAnchor PROVE Consistent'
<1> DEFINE t == AnchorTx(count + 1, mhash)
<1>1. /\ pc = "anchor" /\ Attempt({t})
      /\ UNCHANGED <<did, dumpDID, seals, sealed, pc, i, found, names, nonce, mhash>>
  BY DEF SendAnchor, sealVars, runVars
<1>2. /\ t.kind = "anchor" /\ t.n = count + 1 /\ t.ref = mhash
      /\ t = AnchorTx(t.n, t.ref)
  BY DEF AnchorTx
<1>3. Genuine(t, count + 1, sealed)
  BY <1>2 DEF Genuine, TypeOK
<1>4. Restorable(chain, t.ref)
  <2>1. Restorable(Kept, mhash) /\ Kept \subseteq chain
    BY <1>1 DEF Consistent, RunSafe, StageSafe, Kept
  <2>2. QED
    BY <1>2, <2>1, RestorableGrows
<1>5. NetSafe'
  BY <1>1, <1>2, <1>3, <1>4, NetAttempt DEF Consistent
<1>6. LandedSafe' /\ StageSafe' /\ DIDSettled'
  BY <1>1, <1>2, RunAttempt
<1>7. count' = count + 1 /\ cur' = {t}
  BY <1>1 DEF Attempt, Transmit
<1>8. CurSafe'
  BY <1>1, <1>7 DEF CurSafe
<1>9. QED
  BY <1>5, <1>6, <1>8 DEF Consistent, RunSafe

\* A validated anchor leaves nothing in flight.
LEMMA AnchorConfirmedSafe ==
    ASSUME TypeOK, Consistent, AnchorConfirmed PROVE Consistent'
<1>1. /\ pc = "anchor" /\ Confirm /\ pc' = "saveDID"
      /\ UNCHANGED <<did, dumpDID, count, seals, sealed, i, found, names, nonce, mhash>>
  BY DEF AnchorConfirmed, sealVars
<1>2. cur = {AnchorTx(count, mhash)} /\ AnchorTx(count, mhash).kind = "anchor"
  BY <1>1 DEF Consistent, RunSafe, CurSafe, Confirm, AnchorTx
<1>3. NetSafe'
  BY <1>1, <1>2, NetConfirm DEF Consistent
<1>4. did = mhash /\ flight = {}
  BY <1>1 DEF Consistent, RunSafe, LandedSafe, Confirm
<1>5. Kept \subseteq Kept' /\ cur' = {} /\ flight' = flight
  BY <1>1, KeptConfirm
<1>6. StageSafe'
  <2>1. Restorable(Kept', mhash)
    BY <1>1, <1>5, RestorableGrows DEF Consistent, RunSafe, StageSafe
  <2>2. QED
    BY <1>1, <1>5, <2>1 DEF Consistent, RunSafe, StageSafe
<1>7. QED
  BY <1>1, <1>3, <1>4, <1>5, <1>6 DEF Consistent, RunSafe, CurSafe, LandedSafe, DIDSettled

\* The final save records the DID entry that is on the ledger.
LEMMA SaveDIDSafe ==
    ASSUME TypeOK, Consistent, SaveDID PROVE Consistent'
<1>1. NetSafe'
  BY NetKept DEF Consistent, SaveDID, deliveryVars, sealVars
<1>2. /\ pc = "saveDID" /\ dumpDID' = mhash
      /\ pc' = (IF DeleteDID THEN "delete" ELSE "done")
      /\ UNCHANGED <<chain, flight, cur, dump, did, count, found, mhash>>
  BY DEF SaveDID, deliveryVars
<1>3. cur = {}
  BY <1>2, NothingSent DEF Consistent, RunSafe
<1>4. did = mhash /\ flight = {}
  BY <1>2 DEF Consistent, RunSafe, DIDSettled
<1>5. StageSafe'
  BY <1>2 DEF Consistent, RunSafe, StageSafe, Kept
<1>6. DIDSettled'
  BY <1>2, <1>4 DEF DIDSettled
<1>7. QED
  BY <1>1, <1>2, <1>3, <1>5, <1>6 DEF Consistent, RunSafe, CurSafe, LandedSafe

\* An attempt at DIDDelete disturbs nothing that is recorded.
LEMMA SendDeleteSafe ==
    ASSUME TypeOK, Consistent, SendDelete PROVE Consistent'
<1> DEFINE t == DeleteTx(count + 1)
<1>1. /\ pc = "delete" /\ Attempt({t})
      /\ UNCHANGED <<did, dumpDID, seals, sealed, pc, i, found, names, nonce, mhash>>
  BY DEF SendDelete, sealVars, runVars
<1>2. t.kind = "delete" /\ t.n = count + 1 /\ t = DeleteTx(t.n)
  BY DEF DeleteTx
<1>3. Genuine(t, count + 1, sealed)
  BY <1>2 DEF Genuine, TypeOK
<1>4. NetSafe'
  BY <1>1, <1>2, <1>3, NetAttempt DEF Consistent
<1>5. LandedSafe' /\ StageSafe' /\ DIDSettled'
  BY <1>1, <1>2, RunAttempt
<1>6. count' = count + 1 /\ cur' = {t}
  BY <1>1 DEF Attempt, Transmit
<1>7. CurSafe'
  BY <1>1, <1>6 DEF CurSafe
<1>8. QED
  BY <1>4, <1>5, <1>7 DEF Consistent, RunSafe

\* A validated DIDDelete leaves nothing in flight.
LEMMA DeleteConfirmedSafe ==
    ASSUME TypeOK, Consistent, DeleteConfirmed PROVE Consistent'
<1>1. /\ pc = "delete" /\ Confirm /\ pc' = "clearDID"
      /\ UNCHANGED <<did, dumpDID, count, seals, sealed, i, found, names, nonce, mhash>>
  BY DEF DeleteConfirmed, sealVars
<1>2. cur = {DeleteTx(count)} /\ DeleteTx(count).kind = "delete"
  BY <1>1 DEF Consistent, RunSafe, CurSafe, Confirm, DeleteTx
<1>3. NetSafe'
  BY <1>1, <1>2, NetConfirm DEF Consistent
<1>4. did = 0 /\ flight = {} /\ DeleteDID
  BY <1>1 DEF Consistent, RunSafe, LandedSafe, DIDSettled, Confirm
<1>5. Kept \subseteq Kept' /\ cur' = {} /\ flight' = flight
  BY <1>1, KeptConfirm
<1>6. StageSafe'
  <2>1. Restorable(Kept', mhash)
    BY <1>1, <1>5, RestorableGrows DEF Consistent, RunSafe, StageSafe
  <2>2. QED
    BY <1>1, <1>5, <2>1 DEF Consistent, RunSafe, StageSafe
<1>7. QED
  BY <1>1, <1>3, <1>4, <1>5, <1>6 DEF Consistent, RunSafe, CurSafe, LandedSafe, DIDSettled

\* The save after DeleteAnchor forgets the entry that is gone.
LEMMA ClearDIDSafe ==
    ASSUME TypeOK, Consistent, ClearDID PROVE Consistent'
<1>1. NetSafe'
  BY NetKept DEF Consistent, ClearDID, deliveryVars, sealVars
<1>2. /\ pc = "clearDID" /\ dumpDID' = 0 /\ pc' = "done"
      /\ UNCHANGED <<chain, flight, cur, dump, did, count, found, mhash>>
  BY DEF ClearDID, deliveryVars
<1>3. cur = {}
  BY <1>2, NothingSent DEF Consistent, RunSafe
<1>4. did = 0 /\ flight = {} /\ DeleteDID
  BY <1>2 DEF Consistent, RunSafe, DIDSettled
<1>5. StageSafe'
  BY <1>2 DEF Consistent, RunSafe, StageSafe, Kept
<1>6. QED
  BY <1>1, <1>2, <1>3, <1>4, <1>5 DEF Consistent, RunSafe, CurSafe, LandedSafe, DIDSettled

\* A run may stop anywhere.
LEMMA StopSafe ==
    ASSUME TypeOK, Consistent, Stop PROVE Consistent'
<1>1. CASE Abort \/ Exhausted
  <2>1. NetSafe'
    BY <1>1, NetKept DEF Consistent, Abort, Exhausted, GiveUp, sealVars
  <2>2. RunSafe'
    BY <1>1, RunEnds DEF Abort, Exhausted, GiveUp
  <2>3. QED
    BY <2>1, <2>2 DEF Consistent
<1>2. CASE TornSave
  <2>1. dump' = {} /\ UNCHANGED <<chain, flight, did, count, seals, sealed>> /\ EndRun
    BY <1>2 DEF TornSave, Tear, sealVars
  <2>2. NetSafe'
    BY <2>1, NetTear DEF Consistent
  <2>3. cur' = {}
    BY <1>2, NothingSent DEF TornSave, Tear, Consistent, RunSafe
  <2>4. QED
    BY <2>1, <2>2, <2>3, RunEnds DEF Consistent
<1>3. QED
  BY <1>1, <1>2 DEF Stop

\* So may the network do as it likes.
LEMMA EnvironmentSafe ==
    ASSUME TypeOK, Consistent, Environment PROVE Consistent'
<1>1. CASE NetworkLand
  BY <1>1, NetLand, RunLand DEF Consistent
<1>2. CASE NetworkVoid
  <2>1. NetSafe'
    BY <1>2, NetVoid DEF Consistent
  <2>2. /\ flight' = {}
        /\ UNCHANGED <<chain, cur, dump, did, dumpDID, count, sealed>>
        /\ UNCHANGED <<pc, i, found, names, nonce, mhash>>
    BY <1>2 DEF NetworkVoid, Void, sealVars, runVars
  <2>3. StageSafe'
    BY <2>2, StageKept DEF Consistent, RunSafe, Kept
  <2>4. CurSafe' /\ LandedSafe' /\ DIDSettled'
    BY <2>2 DEF Consistent, RunSafe, CurSafe, LandedSafe, DIDSettled, Recorded
  <2>5. QED
    BY <2>1, <2>3, <2>4 DEF Consistent, RunSafe
<1>3. CASE SwitchNetwork
  <2>1. NetSafe'
    BY <1>3, NetSwitch DEF Consistent
  <2>2. pc = "idle" /\ UNCHANGED <<cur, pc, i, found, names, nonce, mhash>>
    BY <1>3 DEF SwitchNetwork, runVars
  <2>3. cur = {} /\ found = {}
    BY <2>2, NothingSent DEF Consistent, RunSafe, StageSafe
  <2>4. QED
    BY <2>1, <2>2, <2>3 DEF Consistent, RunSafe, CurSafe, LandedSafe, StageSafe, DIDSettled
<1>4. QED
  BY <1>1, <1>2, <1>3 DEF Environment

\* Before the first run nothing is written and nothing is in flight.
LEMMA InitSafe == Init => Consistent
<1> SUFFICES ASSUME Init PROVE Consistent
  OBVIOUS
<1>1. /\ chain = {} /\ flight = {} /\ cur = {} /\ dump = {} /\ did = 0
      /\ sealed = {} /\ pc = "idle" /\ found = {}
  BY DEF Init, SubmitInit, DeliveryInit
<1>2. NetSafe
  BY <1>1 DEF NetSafe, AllGenuine, NoncesDrawn, NonceUnique, NamesPresent, FlightSafe,
             AnchorSound
<1>3. RunSafe
  BY <1>1 DEF RunSafe, CurSafe, LandedSafe, StageSafe, DIDSettled
<1>4. QED
  BY <1>2, <1>3 DEF Consistent

\* Ledger, dump file and process agree in every reachable state of Submit,
\* whatever crashes, is lost, is late or is sent twice.
THEOREM ConsistentAlways == Spec => []Consistent
<1>1. TypeOK /\ Consistent /\ [Next]_vars => Consistent'
  <2> SUFFICES ASSUME TypeOK, Consistent, [Next]_vars PROVE Consistent'
    OBVIOUS
  <2>1. CASE Step
    BY <2>1, SkipChunkSafe, SendChunkSafe, ChunkConfirmedSafe, ReuseManifestSafe,
       SealManifestSafe, SendPartSafe, PartConfirmedSafe, SendAnchorSafe,
       AnchorConfirmedSafe, SaveDIDSafe, SendDeleteSafe, DeleteConfirmedSafe, ClearDIDSafe
    DEF Step
  <2>2. CASE UNCHANGED vars
    <3>1. /\ UNCHANGED <<chain, flight, dump, did, count, seals, sealed, cur, dumpDID>>
          /\ UNCHANGED <<pc, i, found, names, nonce, mhash>>
      BY <2>2 DEF vars, submitVars, deliveryVars, runVars
    <3>2. NetSafe'
      BY <3>1, NetKept DEF Consistent
    <3>3. StageSafe'
      BY <3>1, StageKept DEF Consistent, RunSafe, Kept
    <3>4. CurSafe' /\ LandedSafe' /\ DIDSettled'
      BY <3>1 DEF Consistent, RunSafe, CurSafe, LandedSafe, DIDSettled, Recorded
    <3>5. QED
      BY <3>2, <3>3, <3>4 DEF Consistent, RunSafe
  <2>3. QED
    BY <2>1, <2>2, StartSafe, StopSafe, EnvironmentSafe DEF Next
<1>2. QED
  BY <1>1, InitSafe, TypeCorrect, PTL DEF Spec

-----------------------------------------------------------------------------
(***************************************************************************)
(* What the users of a backup rely on.                                     *)
(***************************************************************************)

\* The DID entry never names a backup that is not whole on the ledger
\* (Submit sends chunks, then the manifest, then the anchor).
THEOREM AnchorAlwaysSound == Spec => []AnchorSound
<1>1. Consistent => AnchorSound
  BY DEF Consistent, NetSafe
<1>2. QED
  BY <1>1, ConsistentAlways, PTL

\* After a successful Submit the dump file alone restores the backup, and it
\* records the DID entry the ledger holds.
THEOREM DumpAlwaysSufficient == Spec => []DumpSufficient
<1>1. Consistent => DumpSufficient
  <2> SUFFICES ASSUME Consistent, pc = "done"
               PROVE  dumpDID = did /\ (did # 0 => Restorable(dump, did))
    BY DEF DumpSufficient
  <2>1. dumpDID = did /\ did = IF DeleteDID THEN 0 ELSE mhash
    BY DEF Consistent, RunSafe, DIDSettled
  <2>2. Restorable(dump, mhash)
    BY RestorableGrows DEF Consistent, RunSafe, StageSafe, Kept
  <2>3. QED
    BY <2>1, <2>2
<1>2. QED
  BY <1>1, ConsistentAlways, PTL

\* A successful tombstone with --delete-anchor leaves no DID entry, and no
\* transmission that could bring one back (DeleteAnchor).
THEOREM DeleteAlwaysHolds == Spec => []DeleteHolds
<1>1. Consistent => DeleteHolds
  BY DEF Consistent, RunSafe, DIDSettled, DeleteHolds
<1>2. QED
  BY <1>1, ConsistentAlways, PTL
=============================================================================
