------------------------------ MODULE History -------------------------------
(***************************************************************************)
(* The backups of one writer account over time: hosts that hold a key file *)
(* plan a backup (NextSeq), write its manifest and then the DID anchor,    *)
(* are interrupted and re-run, and rotate their key file; the server that  *)
(* is asked may have dropped old ledgers.  How one backup reaches the ledger is *)
(* the subject of Sequential and Batched; here a whole manifest lands in   *)
(* one step.                                                               *)
(*                                                                         *)
(* A backup id is a PRF of the packed content, the epoch and the seq, so   *)
(* the three stand for it.                                                 *)
(***************************************************************************)
EXTENDS Naturals, FiniteSets, FiniteSetsExt

CONSTANTS
    Hosts,       \* hosts with a copy of the key file
    Bodies,      \* configurations
    LastEpoch,   \* last epoch (MaxUint32 in the code, which refuses to pass it)
    LastSeq,     \* last seq (MaxUint32 in the code, which refuses to pass it)
    MaxLedger,   \* bound: ledgers
    Events       \* what may happen: "rotate", "batch", "delete", "force",
                 \* "prune", "late", "junk"

ASSUME HistoryAssumption ==
    /\ LastEpoch \in Nat /\ LastSeq \in Nat \ {0} /\ MaxLedger \in Nat
    /\ Events \subseteq {"rotate", "batch", "delete", "force", "prune", "late", "junk"}

VARIABLES
    ledger,   \* last closed ledger that holds a transaction of the account
    hist,     \* manifests on the ledger
    did,      \* the anchor in the DID entry
    flight,   \* what an interrupted run sent and may still land
    key,      \* epoch of each host's key file
    stage,    \* what each host's last backup run has done
    plan      \* the backup it is about

histVars == <<ledger, hist, did, flight, key, stage, plan>>

Epoch  == 0..LastEpoch
Backup == [body : Bodies, epoch : Epoch, seq : 1..LastSeq]
Junk   == [body |-> "junk", epoch |-> 0, seq |-> 0]
None   == [body |-> "none", epoch |-> 0, seq |-> 0]

\* A manifest on the ledger: the backup it describes and where it landed.
\* Junk authenticates under no key.
At(b, l) == [id |-> b, lgr |-> l]

HistInit ==
    /\ ledger = 0 /\ hist = {} /\ did = None /\ flight = {}
    /\ key = [h \in Hosts |-> 0]
    /\ stage = [h \in Hosts |-> "idle"]
    /\ plan = [h \in Hosts |-> None]

-----------------------------------------------------------------------------
(***************************************************************************)
(* Order and reading.                                                      *)
(***************************************************************************)

\* manifest.Newer and newerThanAnchor: by epoch, then by seq.
Newer(a, b) == a.epoch > b.epoch \/ (a.epoch = b.epoch /\ a.seq > b.seq)

\* The servers the operator may ask, by the oldest ledger each still holds.
Servers == IF "prune" \in Events THEN 1..(ledger + 1) ELSE {1}

\* What account_tx returns.
Visible(o) == {m \in hist : m.lgr >= o}

\* What a key file of epoch e authenticates.
OpenedBy(e, o) == {m \in Visible(o) : m.id # Junk /\ m.id.epoch = e}

\* Mutant of NextSeq: the DID entry is asked in place of the history.
NextSeqAnchor(h, o) == IF did.epoch = key[h] THEN did.seq + 1 ELSE 1

\* One above the newest backup this key file opens, disputed or not; 1 when
\* it opens none.  The anchor and AnchorMissing are not consulted.
NextSeq(h, o) == 1 + Max({0} \cup {m.id.seq : m \in OpenedBy(key[h], o)})

-----------------------------------------------------------------------------
(***************************************************************************)
(* The hosts.                                                              *)
(***************************************************************************)

Idle(h) == stage[h] \in {"idle", "done", "cut"}

\* backup --submit binds a plan.  Past LastSeq it refuses (ErrLastSeq).
Plan(h, body, o) ==
    /\ Idle(h)
    /\ NextSeq(h, o) <= LastSeq
    /\ plan' = [plan EXCEPT ![h] = [body |-> body, epoch |-> key[h], seq |-> NextSeq(h, o)]]
    /\ stage' = [stage EXCEPT ![h] = "planned"]
    /\ UNCHANGED <<ledger, hist, did, flight, key>>

\* The server does not answer and the operator passes --force-seq: seq 1.
PlanForced(h, body) ==
    /\ "force" \in Events
    /\ Idle(h)
    /\ plan' = [plan EXCEPT ![h] = [body |-> body, epoch |-> key[h], seq |-> 1]]
    /\ stage' = [stage EXCEPT ![h] = "planned"]
    /\ UNCHANGED <<ledger, hist, did, flight, key>>

\* Mutant of Close: the next transaction is numbered after what is in flight,
\* which can then still land.
CloseQueued ==
    /\ ledger < MaxLedger
    /\ ledger' = ledger + 1
    /\ UNCHANGED flight

\* A ledger closes with something of this account in it, which uses up the
\* sequence number that whatever is in flight was signed for.
Close ==
    /\ ledger < MaxLedger
    /\ ledger' = ledger + 1
    /\ flight' = {}

LandManifest(h) ==
    /\ stage[h] = "planned"
    /\ Close
    /\ hist' = hist \cup {At(plan[h], ledger')}
    /\ stage' = [stage EXCEPT ![h] = "landed"]
    /\ UNCHANGED <<did, key, plan>>

\* Mutant of LandAnchor: the anchor does not wait for the manifest.
LandAnchorEarly(h) ==
    /\ stage[h] \in {"planned", "landed"}
    /\ Close
    /\ did' = plan[h]
    /\ stage' = [stage EXCEPT ![h] = IF stage[h] = "landed" THEN "done" ELSE "planned"]
    /\ UNCHANGED <<hist, key, plan>>

LandAnchor(h) ==
    /\ stage[h] = "landed"
    /\ Close
    /\ did' = plan[h]
    /\ stage' = [stage EXCEPT ![h] = "done"]
    /\ UNCHANGED <<hist, key, plan>>

\* The last group of a Batch carries the manifest's end and the anchor.
LandBatch(h) ==
    /\ "batch" \in Events
    /\ stage[h] = "planned"
    /\ Close
    /\ hist' = hist \cup {At(plan[h], ledger')}
    /\ did' = plan[h]
    /\ stage' = [stage EXCEPT ![h] = "done"]
    /\ UNCHANGED <<key, plan>>

\* --tombstone --delete-anchor: the entry goes once the tombstone is there.
DeleteAnchor(h) ==
    /\ "delete" \in Events
    /\ stage[h] = "done"
    /\ did # None
    /\ Close
    /\ did' = None
    /\ UNCHANGED <<hist, key, stage, plan>>

\* An error or a crash ends the run.  Its last transaction may still land.
Interrupt(h) ==
    /\ stage[h] \in {"planned", "landed"}
    /\ stage' = [stage EXCEPT ![h] = "cut"]
    /\ \/ UNCHANGED flight
       \/ /\ "late" \in Events
          /\ flight' = flight \cup {[part |-> stage[h], id |-> plan[h]]}
    /\ UNCHANGED <<ledger, hist, did, key, plan>>

LandLate ==
    \E f \in flight :
        /\ Close
        /\ IF f.part = "planned"
           THEN hist' = hist \cup {At(f.id, ledger')} /\ UNCHANGED did
           ELSE did' = f.id /\ UNCHANGED hist
        /\ UNCHANGED <<key, stage, plan>>

\* init --rotate on one host: a backup that is running keeps the old key.
Rotate(h) ==
    /\ "rotate" \in Events
    /\ key[h] < LastEpoch
    /\ key' = [key EXCEPT ![h] = @ + 1]
    /\ UNCHANGED <<ledger, hist, did, flight, stage, plan>>

\* A manifest memo nobody's key opens.
PostJunk ==
    /\ "junk" \in Events
    /\ \A m \in hist : m.id # Junk
    /\ Close
    /\ hist' = hist \cup {At(Junk, ledger')}
    /\ UNCHANGED <<did, key, stage, plan>>

HistNext ==
    \/ \E h \in Hosts :
          \/ \E body \in Bodies : (\E o \in Servers : Plan(h, body, o)) \/ PlanForced(h, body)
          \/ LandManifest(h) \/ LandAnchor(h) \/ LandBatch(h) \/ DeleteAnchor(h)
          \/ Interrupt(h) \/ Rotate(h)
    \/ LandLate \/ PostJunk

HistSpec == HistInit /\ [][HistNext]_histVars

-----------------------------------------------------------------------------
(***************************************************************************)
(* Properties.                                                             *)
(***************************************************************************)

HistTypeOK ==
    /\ ledger \in 0..MaxLedger
    /\ \A m \in hist : m.id \in Backup \cup {Junk} /\ m.lgr \in 1..ledger
    /\ did \in Backup \cup {None}
    /\ flight \subseteq [part : {"planned", "landed"}, id : Backup]
    /\ key \in [Hosts -> Epoch]
    /\ stage \in [Hosts -> {"idle", "planned", "landed", "done", "cut"}]
    /\ plan \in [Hosts -> Backup \cup {None}]

\* A backup that lands is newer than every other backup of the account that
\* landed before it (backup.go, NextSeq: "asks discovery for the latest
\* backup so the new one supersedes it").
Supersedes ==
    [][\A m \in hist' \ hist, n \in hist :
          (m.id # Junk /\ n.id # Junk /\ m.id # n.id) => Newer(m.id, n.id)]_histVars

\* What an interrupted run of the same host leaves behind never puts an
\* older backup on top of the history: whatever lands, planned by this run or
\* sent by one that was cut, is newer than all that landed before or at the
\* place of the newest (backup.go, NextSeq and send).  The place can be
\* shared: a run that reads the history while the manifest of an interrupted
\* one is still in flight plans the same seq, and both land.
NeverOlder ==
    [][\A m \in hist' \ hist, n \in hist :
          (m.id # Junk /\ n.id # Junk) => ~Newer(n.id, m.id)]_histVars

\* Once a run has reported success nothing of an earlier interrupted run can
\* take it back: until the host plans again no landed backup is newer than its
\* own, and the DID entry names it or was deleted (doSubmit, send: each
\* transaction takes the validated sequence number, so the one that landed
\* has used up that of whatever was in flight).
DoneStands ==
    \A h \in Hosts : stage[h] = "done" =>
        /\ did \in {plan[h], None}
        /\ \E m \in hist : m.id = plan[h]
        /\ \A m \in hist : m.id # Junk => ~Newer(m.id, plan[h])
=============================================================================
