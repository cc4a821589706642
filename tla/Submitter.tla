----------------------------- MODULE Submitter ------------------------------
(***************************************************************************)
(* What Submitter.Submit keeps while it writes ONE backup plan to the      *)
(* ledger, and the parts the sequential and the batched path share: the    *)
(* start of a run with its resume scan, the ways a run stops early, and    *)
(* the network.                                                            *)
(*                                                                         *)
(* A transaction's hash stands for (transmission number, kind, index):     *)
(* manifests and anchors name a transaction by its transmission number.    *)
(* A manifest's plaintext is the transmission numbers of the chunks it     *)
(* names; its nonce prefix is the number of the sealing run that drew it.  *)
(***************************************************************************)
EXTENDS Delivery

CONSTANTS
    NChunks,    \* chunks of the plan (0 for a tombstone)
    NParts,     \* parts of its manifest
    MaxFaults   \* bound: crashes, errors, lost confirmations, resets

ASSUME PlanAssumption ==
    /\ NChunks \in Nat
    /\ NParts \in Nat \ {0}
    /\ MaxFaults \in Nat

\* Where a run is.  The second row belongs to the batched path.
Stage == {"idle", "chunk", "part", "anchor", "saveDID", "delete", "clearDID", "done",
          "whole", "chunks", "seal", "tail", "saveAnchor"}

Chunk == 0..(NChunks - 1)
Part  == 0..(NParts - 1)

VARIABLES
    did,       \* the DID entry: the manifest its anchor names, 0 for none
    dumpDID,   \* the DID recorded in the dump file, 0 for none
    count,     \* transmissions so far
    seals,     \* sealings of a manifest so far
    sealed,    \* what they encrypted: the set of [nonce, names]
    faults,    \* faults so far
    pc,        \* where Submit is; "idle" when no run is active
    i,         \* chunk or part index of the running loop
    found,     \* dump transactions the resume scan confirmed on the ledger
    names,     \* m.OnChain.Chunks[c].TxHash, 0 while unset
    nonce,     \* nonce prefix of the manifest being sent, 0 for none
    mhash      \* manifestHash: what the anchor will name, 0 while unset

sealVars == <<seals, sealed>>
runVars  == <<pc, i, found, names, nonce, mhash>>
submitVars == <<deliveryVars, did, dumpDID, count, seals, sealed, faults, runVars>>

NoNames == [c \in Chunk |-> 0]

ChunkTx(k, c) ==
    [n |-> k, kind |-> "chunk", idx |-> c, nonce |-> 0, names |-> NoNames, ref |-> 0]
PartTx(k, j, z, nm) ==
    [n |-> k, kind |-> "manifest", idx |-> j, nonce |-> z, names |-> nm, ref |-> 0]
AnchorTx(k, r) ==
    [n |-> k, kind |-> "anchor", idx |-> 0, nonce |-> 0, names |-> NoNames, ref |-> r]
DeleteTx(k) ==
    [n |-> k, kind |-> "delete", idx |-> 0, nonce |-> 0, names |-> NoNames, ref |-> 0]

Tx == [n : Nat, kind : {"chunk", "manifest", "anchor", "delete"}, idx : Nat,
       nonce : Nat, names : [Chunk -> Nat], ref : Nat]

SubmitInit ==
    /\ DeliveryInit
    /\ did = 0 /\ dumpDID = 0
    /\ count = 0 /\ seals = 0 /\ sealed = {} /\ faults = 0
    /\ pc = "idle" /\ i = 0 /\ found = {}
    /\ names = NoNames /\ nonce = 0 /\ mhash = 0

-----------------------------------------------------------------------------
(***************************************************************************)
(* Reading the resume scan.                                                *)
(***************************************************************************)

\* recorded[SHA256 of chunk c]: the confirmed transactions carrying it.
Recorded(c) == {t \in found : t.kind = "chunk" /\ t.idx = c}

\* manifestParts: a confirmed part 0 whose nonce has all its parts confirmed.
CompleteManifest(t) ==
    /\ t \in found
    /\ t.kind = "manifest" /\ t.idx = 0
    /\ \A j \in Part : \E u \in found :
          u.kind = "manifest" /\ u.idx = j /\ u.nonce = t.nonce

-----------------------------------------------------------------------------
(***************************************************************************)
(* Steps both paths share.                                                 *)
(***************************************************************************)

Fault == faults < MaxFaults /\ faults' = faults + 1

\* The last attempt can no longer land.
Dead == cur \notin flight /\ ~(cur \subseteq chain)

\* An attempt of send or sendBatch.  A later attempt while the earlier one
\* can still land, or has landed unseen, is a fault of the network's timing.
Attempt(txs) ==
    /\ Transmit(txs)
    /\ count' = count + 1
    /\ IF att = 0 \/ Dead THEN UNCHANGED faults ELSE Fault

\* Mutant of Start: recorded transactions are believed without onLedger.
StartUnconfirmed ==
    /\ pc = "idle"
    /\ found' = {t \in dump : t.kind \in {"chunk", "manifest"}}
    /\ pc' = "chunk"
    /\ i' = 0 /\ names' = NoNames /\ nonce' = 0 /\ mhash' = 0
    /\ UNCHANGED <<deliveryVars, did, dumpDID, count, sealVars, faults>>

\* A run starts: the dump is loaded and every transaction it records for
\* this backup is looked up.  A server that has dropped part of its history
\* answers not found for what it no longer holds.
Start ==
    /\ pc = "idle"
    /\ \E conf \in SUBSET {t \in dump \cap chain : t.kind \in {"chunk", "manifest"}} :
          /\ found' = conf
          /\ IF conf = {t \in dump \cap chain : t.kind \in {"chunk", "manifest"}}
             THEN UNCHANGED faults ELSE Fault
    /\ pc' = "chunk"
    /\ i' = 0 /\ names' = NoNames /\ nonce' = 0 /\ mhash' = 0
    /\ UNCHANGED <<deliveryVars, did, dumpDID, count, sealVars>>

EndRun ==
    /\ pc' = "idle"
    /\ i' = 0 /\ found' = {} /\ names' = NoNames /\ nonce' = 0 /\ mhash' = 0

Running == pc \notin {"idle", "done"}

\* An RPC error, a refused fee, ctrl-C, power loss: the run ends here.
Abort ==
    /\ Running
    /\ Fault
    /\ GiveUp
    /\ EndRun
    /\ UNCHANGED <<did, dumpDID, count, sealVars>>

\* "did not validate after 3 attempts".
Exhausted ==
    /\ Running
    /\ att = MaxAttempts
    /\ Dead
    /\ GiveUp
    /\ EndRun
    /\ UNCHANGED <<did, dumpDID, count, sealVars, faults>>

\* The save that follows a confirmed transaction, or the one that records
\* the DID, is cut short.
TornSave ==
    /\ Running
    /\ Fault
    /\ \/ Tear
       \/ /\ pc \in {"saveDID", "saveAnchor", "clearDID"}
          /\ dump' = {}
          /\ UNCHANGED <<chain, flight, cur, att>>
    /\ dumpDID' = 0
    /\ EndRun
    /\ UNCHANGED <<did, count, sealVars>>

\* Between two runs the operator points the tool at another network, or the
\* test network is reset: nothing the dump records is on this ledger.
SwitchNetwork ==
    /\ pc = "idle"
    /\ chain # {}
    /\ Fault
    /\ chain' = {} /\ flight' = {} /\ did' = 0
    /\ UNCHANGED <<cur, att, dump, dumpDID, count, sealVars, runVars>>

\* A ledger closes with one of our transmissions; a DIDSet replaces the
\* account's DID entry, a DIDDelete removes it.
NetworkLand ==
    /\ \E txs \in flight :
          /\ Land(txs)
          /\ \/ \E t \in txs : t.kind = "anchor" /\ did' = t.ref
             \/ (\E t \in txs : t.kind = "delete") /\ did' = 0
             \/ (\A t \in txs : t.kind \notin {"anchor", "delete"}) /\ did' = did
    /\ UNCHANGED <<dumpDID, count, sealVars, faults, runVars>>

NetworkVoid ==
    /\ Fault
    /\ Void
    /\ UNCHANGED <<did, dumpDID, count, sealVars, runVars>>

Environment == NetworkLand \/ NetworkVoid \/ SwitchNetwork
Stop        == Abort \/ Exhausted \/ TornSave

\* NewManifestNonce draws ten random bytes for every sealing; a fresh number
\* stands for them, so that no draw repeats is an assumption of the model.
Seal(nm) ==
    /\ seals' = seals + 1
    /\ nonce' = seals'
    /\ sealed' = sealed \cup {[nonce |-> nonce', names |-> nm]}

-----------------------------------------------------------------------------
(***************************************************************************)
(* Properties.                                                             *)
(***************************************************************************)

TypeOK ==
    /\ chain \subseteq Tx /\ dump \subseteq Tx /\ found \subseteq Tx /\ cur \subseteq Tx
    /\ flight \subseteq SUBSET Tx
    /\ att \in 0..MaxAttempts
    /\ did \in Nat /\ dumpDID \in Nat /\ count \in Nat /\ mhash \in Nat /\ nonce \in Nat
    /\ seals \in Nat
    /\ sealed \subseteq [nonce : Nat, names : [Chunk -> Nat]]
    /\ faults \in 0..MaxFaults
    /\ pc \in Stage
    /\ i \in Nat
    /\ names \in [Chunk -> Nat]

\* Every chunk the names nm stand for is in S.
ChunksIn(S, nm) == \A c \in Chunk : ChunkTx(nm[c], c) \in S

\* Every part of the manifest sealed as (z, nm) is in S.
PartsIn(S, z, nm) == \A j \in Part : \E u \in S : u = PartTx(u.n, j, z, nm)

\* The transactions S are enough to restore the backup whose anchor names
\* manifest part 0 of transmission r.
Restorable(S, r) ==
    \E t \in S :
        /\ t.kind = "manifest" /\ t.idx = 0 /\ t.n = r
        /\ PartsIn(S, t.nonce, t.names)
        /\ ChunksIn(S, t.names)

\* The DID entry never names a backup that is not whole on the ledger: all
\* parts of the manifest and all chunks it names landed, over every crash,
\* resume, duplicate, late landing and change of network (Submit's order:
\* chunks, then the manifest, then the anchor).
AnchorSound == did # 0 => Restorable(chain, did)

\* One nonce, one list of chunk names.  It follows from the fresh numbers of
\* Seal and says nothing of the code; the inductive invariants use it to tell
\* which manifest a part belongs to.
NonceUnique ==
    \A s, t \in sealed : s.nonce = t.nonce => s.names = t.names

\* When Submit succeeds the dump file alone restores the backup the
\* recorded DID names, and that DID is the one on the ledger
\* (cmd_backup.go, "offline restore source").
DumpSufficient ==
    pc = "done" => dumpDID = did /\ (did # 0 => Restorable(dump, did))
=============================================================================
