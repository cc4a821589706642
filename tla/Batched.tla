------------------------------ MODULE Batched -------------------------------
(***************************************************************************)
(* Submitter.submitBatched: the transactions of a backup wrapped in        *)
(* all-or-nothing Batches.  When everything fits, chunks, manifest and     *)
(* anchor are one Batch; otherwise the chunks go first, then the manifest  *)
(* parts in groups of which the last also carries the anchor.  An inner    *)
(* hash is known before the Batch is sent, so a manifest can name chunks   *)
(* and an anchor can name a manifest of its own Batch; each attempt has    *)
(* new sequences and therefore new hashes.                                 *)
(***************************************************************************)
EXTENDS Submitter, FiniteSets, BatchLayout

vars == submitVars

Init == SubmitInit

\* Chunks whose hash this run does not take from the resume scan.
Pending == {c \in Chunk : Recorded(c) = {}}

Items == NParts + 1

-----------------------------------------------------------------------------
(***************************************************************************)
(* The plan: recorded chunks keep their hash, then one of four ways on.    *)
(***************************************************************************)

\* Mutant of NoteRecorded: the loop stays on a recorded chunk.
NoteRecordedStays ==
    /\ pc = "chunk" /\ i < NChunks
    /\ IF Recorded(i) = {} THEN i' = i + 1 /\ UNCHANGED names
       ELSE (\E t \in Recorded(i) : names' = [names EXCEPT ![i] = t.n]) /\ UNCHANGED i
    /\ UNCHANGED <<deliveryVars, did, dumpDID, count, sealVars, faults, pc, found, nonce, mhash>>

NoteRecorded ==
    /\ pc = "chunk" /\ i < NChunks
    /\ IF Recorded(i) = {} THEN UNCHANGED names
       ELSE \E t \in Recorded(i) : names' = [names EXCEPT ![i] = t.n]
    /\ i' = i + 1
    /\ UNCHANGED <<deliveryVars, did, dumpDID, count, sealVars, faults, pc, found, nonce, mhash>>

\* A complete manifest is on the ledger: only the anchor is left.
ReuseManifest ==
    /\ pc = "chunk" /\ i = NChunks
    /\ Pending = {}
    /\ \E t \in found : CompleteManifest(t) /\ mhash' = t.n
    /\ pc' = "anchor"
    /\ UNCHANGED <<deliveryVars, did, dumpDID, count, sealVars, faults, i, found, names, nonce>>

\* ... but not every chunk it may name was found: "refusing to guess".
RefuseToGuess ==
    /\ pc = "chunk" /\ i = NChunks
    /\ Pending # {}
    /\ \E t \in found : CompleteManifest(t)
    /\ EndRun
    /\ UNCHANGED <<deliveryVars, did, dumpDID, count, sealVars, faults>>

ChooseLayout ==
    /\ pc = "chunk" /\ i = NChunks
    /\ \A t \in found : ~CompleteManifest(t)
    /\ pc' = CASE OneBatch(Cardinality(Pending), NParts) -> "whole"
               [] ~OneBatch(Cardinality(Pending), NParts) /\ Pending # {} -> "chunks"
               [] OTHER -> "seal"
    /\ UNCHANGED <<deliveryVars, did, dumpDID, count, sealVars, faults, i, found, names, nonce, mhash>>

-----------------------------------------------------------------------------
(***************************************************************************)
(* Everything in one Batch.  The build callback runs on every attempt: it  *)
(* renames the pending chunks and seals the manifest again.                *)
(***************************************************************************)

\* Mutant of SendWhole: the anchor is left for a transaction of its own.
SendWholeUnanchored ==
    /\ pc = "whole"
    /\ names' = [c \in Chunk |-> IF c \in Pending THEN count + 1 ELSE names[c]]
    /\ Seal(names')
    /\ Attempt({ChunkTx(count + 1, c) : c \in Pending}
                 \cup {PartTx(count + 1, j, nonce', names') : j \in Part})
    /\ UNCHANGED <<did, dumpDID, pc, i, found, mhash>>

\* Mutant of SendWhole: a later attempt keeps the chunk names of the first.
SendWholeStale ==
    /\ pc = "whole"
    /\ names' = IF att > 0 THEN names
                ELSE [c \in Chunk |-> IF c \in Pending THEN count + 1 ELSE names[c]]
    /\ Seal(names')
    /\ Attempt({ChunkTx(count + 1, c) : c \in Pending}
                 \cup {PartTx(count + 1, j, nonce', names') : j \in Part}
                 \cup {AnchorTx(count + 1, count + 1)})
    /\ UNCHANGED <<did, dumpDID, pc, i, found, mhash>>

SendWhole ==
    /\ pc = "whole"
    /\ names' = [c \in Chunk |-> IF c \in Pending THEN count + 1 ELSE names[c]]
    /\ Seal(names')
    /\ Attempt({ChunkTx(count + 1, c) : c \in Pending}
                 \cup {PartTx(count + 1, j, nonce', names') : j \in Part}
                 \cup {AnchorTx(count + 1, count + 1)})
    /\ UNCHANGED <<did, dumpDID, pc, i, found, mhash>>

WholeConfirmed ==
    /\ pc = "whole"
    /\ Confirm
    /\ mhash' = count
    /\ pc' = "saveDID"
    /\ UNCHANGED <<did, dumpDID, count, sealVars, faults, i, found, names, nonce>>

-----------------------------------------------------------------------------
(***************************************************************************)
(* Chunks first: one Batch, or a plain transaction for a single one.       *)
(***************************************************************************)

SendChunks ==
    /\ pc = "chunks"
    /\ Attempt({ChunkTx(count + 1, c) : c \in Pending})
    /\ UNCHANGED <<did, dumpDID, sealVars, runVars>>

ChunksConfirmed ==
    /\ pc = "chunks"
    /\ Confirm
    /\ names' = [c \in Chunk |-> IF c \in Pending THEN count ELSE names[c]]
    /\ pc' = "seal"
    /\ UNCHANGED <<did, dumpDID, count, sealVars, faults, i, found, nonce, mhash>>

-----------------------------------------------------------------------------
(***************************************************************************)
(* Then the manifest, sealed once, in groups; i is the group.              *)
(***************************************************************************)

SealTail ==
    /\ pc = "seal"
    /\ Seal(names)
    /\ i' = 1
    /\ pc' = "tail"
    /\ UNCHANGED <<deliveryVars, did, dumpDID, count, faults, found, names, mhash>>

\* Mutant of LastGroup: the anchor follows in a group after the last one.
LastGroupPlusOne == i = Groups(Items) + 1

LastGroup == i = Groups(Items)

\* Parts first .. first+count-1 of the group, those there are.
GroupParts ==
    {j \in Part : First(Items, i) <= j /\ j < First(Items, i) + SplitSize(Items, i)}

\* Mutant of SendTail: the anchor rides with the first group.
SendTailAnchorFirst ==
    /\ pc = "tail"
    /\ Attempt({PartTx(count + 1, j, nonce, names) : j \in GroupParts}
                 \cup (IF i = 1 THEN {AnchorTx(count + 1, count + 1)} ELSE {}))
    /\ UNCHANGED <<did, dumpDID, sealVars, runVars>>

\* The anchor names part 0: landed earlier, or in this very Batch.
SendTail ==
    /\ pc = "tail"
    /\ Attempt({PartTx(count + 1, j, nonce, names) : j \in GroupParts}
                 \cup (IF LastGroup
                       THEN {AnchorTx(count + 1, IF i = 1 THEN count + 1 ELSE mhash)}
                       ELSE {}))
    /\ UNCHANGED <<did, dumpDID, sealVars, runVars>>

TailConfirmed ==
    /\ pc = "tail"
    /\ Confirm
    /\ mhash' = IF i = 1 THEN count ELSE mhash
    /\ i' = i + 1
    /\ pc' = IF LastGroup THEN "saveDID" ELSE "tail"
    /\ UNCHANGED <<did, dumpDID, count, sealVars, faults, found, names, nonce>>

-----------------------------------------------------------------------------
(***************************************************************************)
(* sendAnchor of a resumed run, and finishBatched.                         *)
(***************************************************************************)

SendAnchor ==
    /\ pc = "anchor"
    /\ Attempt({AnchorTx(count + 1, mhash)})
    /\ UNCHANGED <<did, dumpDID, sealVars, runVars>>

AnchorConfirmed ==
    /\ pc = "anchor"
    /\ Confirm
    /\ pc' = "saveAnchor"
    /\ UNCHANGED <<did, dumpDID, count, sealVars, faults, i, found, names, nonce, mhash>>

\* sendAnchor records the anchor it built.
SaveAnchor ==
    /\ pc = "saveAnchor"
    /\ dumpDID' = mhash
    /\ pc' = "done"
    /\ UNCHANGED <<deliveryVars, did, count, sealVars, faults, i, found, names, nonce, mhash>>

\* finishBatched reads the DID entry back and records what the ledger holds.
FinishBatched ==
    /\ pc = "saveDID"
    /\ did # 0
    /\ dumpDID' = did
    /\ pc' = "done"
    /\ UNCHANGED <<deliveryVars, did, count, sealVars, faults, i, found, names, nonce, mhash>>

-----------------------------------------------------------------------------
\* The outer Batch validated and looking up an inner transaction failed:
\* the run ends.  That is so when the inner transactions did not apply, and
\* also when the look-up of one that did apply got no answer.
InnerLookupFails ==
    /\ pc \in {"whole", "chunks", "tail"}
    /\ Cardinality(cur) > 1
    /\ cur \notin flight
    /\ Fault
    /\ GiveUp
    /\ EndRun
    /\ UNCHANGED <<did, dumpDID, count, sealVars>>

Step ==
    \/ NoteRecorded \/ ReuseManifest \/ RefuseToGuess \/ ChooseLayout
    \/ SendWhole \/ WholeConfirmed
    \/ SendChunks \/ ChunksConfirmed
    \/ SealTail \/ SendTail \/ TailConfirmed
    \/ SendAnchor \/ AnchorConfirmed \/ SaveAnchor \/ FinishBatched

Next ==
    \/ Start \/ Step
    \/ InnerLookupFails
    \/ Stop \/ Environment

Spec == Init /\ [][Next]_vars

FairSpec ==
    /\ Spec
    /\ WF_vars(Start \/ Step \/ Exhausted)
    /\ WF_vars(NetworkLand)

-----------------------------------------------------------------------------
(***************************************************************************)
(* Properties of the batched path.                                         *)
(***************************************************************************)

\* However a bounded number of faults cuts runs short, re-running Submit
\* with the same plan and dump ends in success.
EventuallyDone == <>(pc = "done")

\* The window the sequential path has is closed: whenever the ledger holds
\* every part of a manifest of this plan, it also holds an anchor that names
\* part 0 of it (batch.go: "A Batch with tfAllOrNothing closes both windows").
NoUnanchoredManifest ==
    \A t \in chain :
        (t.kind = "manifest" /\ t.idx = 0 /\ PartsIn(chain, t.nonce, t.names))
            => \E a, u \in chain :
                  /\ a.kind = "anchor" /\ u.kind = "manifest" /\ u.idx = 0
                  /\ u.nonce = t.nonce /\ a.ref = u.n
=============================================================================
