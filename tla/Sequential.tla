----------------------------- MODULE Sequential -----------------------------
(***************************************************************************)
(* Submitter.Submit without Batch: chunks one by one, then the manifest    *)
(* parts, then the DID anchor, each confirmed and recorded before the next *)
(* is sent; then, for a tombstone, DeleteAnchor.                           *)
(***************************************************************************)
EXTENDS Submitter

CONSTANT DeleteDID   \* TRUE for --tombstone --delete-anchor

ASSUME DeleteAssumption == DeleteDID \in BOOLEAN /\ (DeleteDID => NChunks = 0)

Init == SubmitInit

-----------------------------------------------------------------------------
(***************************************************************************)
(* The chunk loop.                                                         *)
(***************************************************************************)

\* Mutant of SkipChunk: `continue' in a loop that does not advance.
SkipChunkStays ==
    /\ pc = "chunk" /\ i < NChunks
    /\ \E t \in Recorded(i) : names' = [names EXCEPT ![i] = t.n]
    /\ UNCHANGED <<deliveryVars, did, dumpDID, count, sealVars, faults, pc, i, found, nonce, mhash>>

SkipChunk ==
    /\ pc = "chunk" /\ i < NChunks
    /\ \E t \in Recorded(i) : names' = [names EXCEPT ![i] = t.n]
    /\ i' = i + 1
    /\ UNCHANGED <<deliveryVars, did, dumpDID, count, sealVars, faults, pc, found, nonce, mhash>>

SendChunk ==
    /\ pc = "chunk" /\ i < NChunks
    /\ Recorded(i) = {}
    /\ Attempt({ChunkTx(count + 1, i)})
    /\ UNCHANGED <<did, dumpDID, sealVars, runVars>>

ChunkConfirmed ==
    /\ pc = "chunk"
    /\ Confirm
    /\ names' = [names EXCEPT ![i] = count]
    /\ i' = i + 1
    /\ UNCHANGED <<did, dumpDID, count, sealVars, faults, pc, found, nonce, mhash>>

-----------------------------------------------------------------------------
(***************************************************************************)
(* The manifest: a complete one the scan confirmed is reused, otherwise a  *)
(* new one is sealed under a fresh nonce prefix.                           *)
(***************************************************************************)

ReuseManifest ==
    /\ pc = "chunk" /\ i = NChunks
    /\ \E t \in found : CompleteManifest(t) /\ mhash' = t.n
    /\ pc' = "anchor"
    /\ UNCHANGED <<deliveryVars, did, dumpDID, count, sealVars, faults, i, found, names, nonce>>

SealManifest ==
    /\ pc = "chunk" /\ i = NChunks
    /\ \A t \in found : ~CompleteManifest(t)
    /\ Seal(names)
    /\ pc' = "part"
    /\ i' = 0
    /\ UNCHANGED <<deliveryVars, did, dumpDID, count, faults, found, names, mhash>>

SendPart ==
    /\ pc = "part"
    /\ Attempt({PartTx(count + 1, i, nonce, names)})
    /\ UNCHANGED <<did, dumpDID, sealVars, runVars>>

\* Mutant of PartConfirmed: a submitted part counts as validated.
PartAssumed ==
    /\ pc = "part"
    /\ cur # {}
    /\ GiveUp
    /\ mhash' = IF i = 0 THEN count ELSE mhash
    /\ i' = i + 1
    /\ pc' = IF i + 1 = NParts THEN "anchor" ELSE "part"
    /\ UNCHANGED <<did, dumpDID, count, sealVars, faults, found, names, nonce>>

PartConfirmed ==
    /\ pc = "part"
    /\ Confirm
    /\ mhash' = IF i = 0 THEN count ELSE mhash
    /\ i' = i + 1
    /\ pc' = IF i + 1 = NParts THEN "anchor" ELSE "part"
    /\ UNCHANGED <<did, dumpDID, count, sealVars, faults, found, names, nonce>>

-----------------------------------------------------------------------------
(***************************************************************************)
(* The anchor, the final save, and DeleteAnchor.                           *)
(***************************************************************************)

SendAnchor ==
    /\ pc = "anchor"
    /\ Attempt({AnchorTx(count + 1, mhash)})
    /\ UNCHANGED <<did, dumpDID, sealVars, runVars>>

AnchorConfirmed ==
    /\ pc = "anchor"
    /\ Confirm
    /\ pc' = "saveDID"
    /\ UNCHANGED <<did, dumpDID, count, sealVars, faults, i, found, names, nonce, mhash>>

\* s.Dump.DID is set and the dump saved a second time.
SaveDID ==
    /\ pc = "saveDID"
    /\ dumpDID' = mhash
    /\ pc' = IF DeleteDID THEN "delete" ELSE "done"
    /\ UNCHANGED <<deliveryVars, did, count, sealVars, faults, i, found, names, nonce, mhash>>

SendDelete ==
    /\ pc = "delete"
    /\ Attempt({DeleteTx(count + 1)})
    /\ UNCHANGED <<did, dumpDID, sealVars, runVars>>

\* Mutant of DeleteConfirmed: DeleteAnchor does not wait for validation.
DeleteAssumed ==
    /\ pc = "delete"
    /\ cur # {}
    /\ GiveUp
    /\ pc' = "clearDID"
    /\ UNCHANGED <<did, dumpDID, count, sealVars, faults, i, found, names, nonce, mhash>>

DeleteConfirmed ==
    /\ pc = "delete"
    /\ Confirm
    /\ pc' = "clearDID"
    /\ UNCHANGED <<did, dumpDID, count, sealVars, faults, i, found, names, nonce, mhash>>

ClearDID ==
    /\ pc = "clearDID"
    /\ dumpDID' = 0
    /\ pc' = "done"
    /\ UNCHANGED <<deliveryVars, did, count, sealVars, faults, i, found, names, nonce, mhash>>

-----------------------------------------------------------------------------
Step ==
    \/ SkipChunk \/ SendChunk \/ ChunkConfirmed
    \/ ReuseManifest \/ SealManifest \/ SendPart \/ PartConfirmed
    \/ SendAnchor \/ AnchorConfirmed \/ SaveDID
    \/ SendDelete \/ DeleteConfirmed \/ ClearDID

Next == Start \/ Step \/ Stop \/ Environment

vars == submitVars

Spec == Init /\ [][Next]_vars

\* The operator re-runs an interrupted command, a running process takes its
\* steps, and a transmission that can land does.
FairSpec ==
    /\ Spec
    /\ WF_vars(Start \/ Step \/ Exhausted)
    /\ WF_vars(NetworkLand)

-----------------------------------------------------------------------------
(***************************************************************************)
(* Properties of the sequential path.                                      *)
(***************************************************************************)

\* However a bounded number of faults cuts runs short, re-running Submit
\* with the same plan and dump ends in success.
EventuallyDone == <>(pc = "done")

\* A successful tombstone with --delete-anchor leaves no DID entry: no
\* earlier anchor transmission can land after the DIDDelete.
DeleteHolds == (pc = "done" /\ DeleteDID) => did = 0 /\ flight = {}
-----------------------------------------------------------------------------
(***************************************************************************)
(* The inductive invariant behind AnchorSound, DumpSufficient and          *)
(* DeleteHolds (module SequentialProofs).                                  *)
(***************************************************************************)

\* What the run has written and recorded, and both still hold.
Kept == chain \cap dump

\* A transaction carries what its kind carries and nothing else, it is one
\* of the first k transmitted, and a manifest part is of a sealing in S.
Genuine(t, k, S) ==
    /\ t \in {ChunkTx(t.n, t.idx), PartTx(t.n, t.idx, t.nonce, t.names),
               AnchorTx(t.n, t.ref), DeleteTx(t.n)}
    /\ t.n <= k
    /\ t.kind = "manifest" => [nonce |-> t.nonce, names |-> t.names] \in S

AllGenuine == \A t \in chain \cup dump : Genuine(t, count, sealed)

NoncesDrawn == \A s \in sealed : s.nonce <= seals

\* A manifest is never in S without the chunks it names.
NamesPresent(S) == \A t \in S : t.kind = "manifest" => ChunksIn(S, t.names)

\* What is in flight may land in any order: the chunks of a manifest and
\* the backup of an anchor are on the ledger before it is sent.
FlightSafe ==
    \A g \in flight : \E t \in g :
        /\ g = {t}
        /\ Genuine(t, count, sealed)
        /\ t.kind = "manifest" => ChunksIn(chain, t.names)
        /\ t.kind = "anchor" => Restorable(chain, t.ref)

\* The transmission a run waits for is the one its stage sends.
CurSafe ==
    cur # {} =>
        \/ pc = "chunk" /\ i < NChunks /\ Recorded(i) = {} /\ cur = {ChunkTx(count, i)}
        \/ pc = "part" /\ cur = {PartTx(count, i, nonce, names)}
        \/ pc = "anchor" /\ cur = {AnchorTx(count, mhash)}
        \/ pc = "delete" /\ cur = {DeleteTx(count)}

\* Once it has landed nothing else can land before the run goes on.
LandedSafe ==
    cur # {} /\ cur \subseteq chain =>
        /\ flight = {}
        /\ pc = "anchor" => did = mhash
        /\ pc = "delete" => did = 0

\* What each stage of a run has behind it.
StageSafe ==
    /\ pc \in {"idle", "chunk", "part", "anchor", "saveDID", "delete", "clearDID", "done"}
    /\ found \subseteq Kept
    /\ pc = "idle" => found = {}
    /\ pc = "chunk" =>
          /\ i <= NChunks
          /\ \A c \in Chunk : c < i => ChunkTx(names[c], c) \in Kept
    /\ pc = "part" =>
          /\ i < NParts
          /\ ChunksIn(Kept, names)
          /\ [nonce |-> nonce, names |-> names] \in sealed
          /\ \A j \in Part : j < i => \E u \in Kept : u = PartTx(u.n, j, nonce, names)
          /\ i > 0 => PartTx(mhash, 0, nonce, names) \in Kept
    /\ pc \in {"anchor", "saveDID", "delete", "clearDID", "done"} => Restorable(Kept, mhash)

\* After the anchor (or the delete) is confirmed the DID entry is settled.
DIDSettled ==
    /\ pc = "saveDID" => did = mhash /\ flight = {}
    /\ pc = "delete" => DeleteDID
    /\ pc = "clearDID" => did = 0 /\ flight = {} /\ DeleteDID
    /\ pc = "done" =>
          /\ flight = {}
          /\ dumpDID = did
          /\ did = IF DeleteDID THEN 0 ELSE mhash

\* What is on the ledger, in flight and in the dump file ...
NetSafe ==
    /\ AllGenuine /\ NoncesDrawn /\ NonceUnique
    /\ NamesPresent(chain) /\ NamesPresent(dump)
    /\ FlightSafe
    /\ AnchorSound

\* ... and what the running process believes of it ...
RunSafe == CurSafe /\ LandedSafe /\ StageSafe /\ DIDSettled

\* ... agree, in every state a crash, a late landing or a resume of Submit
\* can produce (backup.go, Submit and send).
Consistent == NetSafe /\ RunSafe
=============================================================================
