------------------------------ MODULE Discover ------------------------------
(***************************************************************************)
(* discover.Run and choose: an operator reads the DID anchor, then the     *)
(* account's history, opens the manifests that authenticate over a search  *)
(* of epochs, and picks the newest or refuses.  Hosts keep writing between *)
(* the two reads (module History).                                         *)
(***************************************************************************)
EXTENDS History

CONSTANTS
    Probe,   \* maxEpochProbe (64)
    Roots,   \* epochs a search with the recovery words starts from (--epoch, 0)
    Files    \* epochs of the key files used to read

ASSUME DiscoverAssumption ==
    Probe \in Nat \ {0} /\ Roots \subseteq Epoch /\ Files \subseteq Epoch

VARIABLES
    pc,       \* "idle", "scan", "probe" or "done"
    keys,     \* epochs the reader holds keys for
    floor,    \* the operator's starting epoch
    hint,     \* epochHint: raised by a verified anchor
    anchor,   \* res.Anchor when AnchorOK, else None
    seen,     \* complete manifests in the history read
    opened,   \* res.Candidates
    upper,    \* highest epoch tried
    choice    \* what choose returned: a backup or a refusal

readVars == <<pc, keys, floor, hint, anchor, seen, opened, upper, choice>>
vars     == <<histVars, readVars>>

Backs(m)   == [kind |-> "backup", m |-> m]
Refuses(r) == [kind |-> r, m |-> At(None, 0)]

Init ==
    /\ HistInit
    /\ pc = "idle" /\ keys = {} /\ floor = 0 /\ hint = 0 /\ anchor = None
    /\ seen = {} /\ opened = {} /\ upper = 0 /\ choice = Refuses("no")

-----------------------------------------------------------------------------
(***************************************************************************)
(* Run.                                                                    *)
(***************************************************************************)

\* LedgerEntryDID.  An anchor whose MAC does not verify, because its epoch
\* is not one the reader has the key for, is ignored.
ReadAnchor(ks, start) ==
    /\ pc = "idle"
    /\ keys' = ks /\ floor' = start
    /\ anchor' = IF did # None /\ did.epoch \in ks THEN did ELSE None
    /\ hint' = IF anchor' # None /\ anchor'.epoch > start THEN anchor'.epoch ELSE start
    /\ pc' = "scan"
    /\ UNCHANGED <<histVars, seen, opened, upper, choice>>

\* openManifest: what opens with the keys of the epochs es.
Opens(S, es) == {m \in S : m.id # Junk /\ m.id.epoch \in es \cap keys}

\* Mutant of probeOrder: the anchor's epoch moves the floor as well.
probeOrderNoFloor == {e \in 0..(LastEpoch + Probe) : hint + 1 <= e + Probe /\ e <= hint + Probe}

\* From hint down to Probe epochs from the floor, and Probe epochs above.
probeOrder == {e \in 0..(LastEpoch + Probe) : floor + 1 <= e + Probe /\ e <= hint + Probe}

\* AccountTx, the grouping of parts and the first pass.
Scan(o) ==
    /\ pc = "scan"
    /\ seen' = Visible(o)
    /\ opened' = Opens(Visible(o), probeOrder)
    /\ upper' = hint + Probe
    /\ pc' = "probe"
    /\ UNCHANGED <<histVars, keys, floor, hint, anchor, choice>>

\* The server does not answer account_tx: the run ends, the operator may
\* start again.
ScanFails ==
    /\ pc = "scan"
    /\ pc' = "idle" /\ keys' = {} /\ floor' = 0 /\ hint' = 0 /\ anchor' = None
    /\ UNCHANGED <<histVars, seen, opened, upper, choice>>

top == Max({hint} \cup {m.id.epoch : m \in opened})

\* The search moves up with the epochs found.
CanWiden == seen # opened /\ top + Probe > upper

\* Mutant of Widen: `upper' is not moved.
WidenStays ==
    /\ pc = "probe"
    /\ CanWiden
    /\ opened' = opened \cup Opens(seen \ opened, (upper + 1)..(top + Probe))
    /\ UNCHANGED <<histVars, pc, keys, floor, hint, anchor, seen, upper, choice>>

Widen ==
    /\ pc = "probe"
    /\ CanWiden
    /\ opened' = opened \cup Opens(seen \ opened, (upper + 1)..(top + Probe))
    /\ upper' = top + Probe
    /\ UNCHANGED <<histVars, pc, keys, floor, hint, anchor, seen, choice>>

-----------------------------------------------------------------------------
(***************************************************************************)
(* Selection.                                                              *)
(***************************************************************************)

\* The first candidates of the sorted list, one per backup: a backup sealed
\* twice counts once, with its first landing.
Leaders == {m \in opened : \A n \in opened :
               ~Newer(n.id, m.id) /\ (n.id = m.id => m.lgr <= n.lgr)}

Conflict == Cardinality(Leaders) > 1

Latest == CHOOSE m \in Leaders : TRUE

AnchorMissing ==
    /\ anchor # None
    /\ Latest.id # anchor
    /\ ~Newer(Latest.id, anchor)

\* Mutant of Choose: a missing anchored backup is only a warning.
ChooseAnyway ==
    CASE opened = {} -> Refuses("nothing")
      [] Conflict    -> Refuses("conflict")
      [] OTHER       -> Backs(Latest)

\* choose without --backup-id.
Choose ==
    CASE opened = {} -> Refuses("nothing")
      [] Conflict    -> Refuses("conflict")
      [] opened # {} /\ ~Conflict /\ AnchorMissing -> Refuses("missing")
      [] OTHER       -> Backs(Latest)

Select ==
    /\ pc = "probe"
    /\ ~CanWiden
    /\ choice' = Choose
    /\ pc' = "done"
    /\ UNCHANGED <<histVars, keys, floor, hint, anchor, seen, opened, upper>>

Chosen == pc = "done" /\ choice.kind = "backup"

\* Mutant of RejectedAfter: manifests that landed before are counted.
RejectedBefore == {m \in seen \ opened : m.lgr < choice.m.lgr}

\* Manifests that landed after the selected one and did not open: the run
\* warns that one of them may be the newest backup.
RejectedAfter == {m \in seen \ opened : m.lgr > choice.m.lgr}

-----------------------------------------------------------------------------
ReadStep == (\E o \in Servers : Scan(o)) \/ Widen \/ Select

Read ==
    \/ \E e \in Roots : ReadAnchor(Epoch, e)
    \/ \E e \in Files : ReadAnchor({e}, e)
    \/ ReadStep
    \/ ScanFails

\* After the scan nothing reads the ledger any more, so what is written
\* from there on is left out.
Write == HistNext /\ pc \in {"idle", "scan"} /\ UNCHANGED readVars

Next == Read \/ Write

Spec == Init /\ [][Next]_vars

\* A process that runs takes its steps.
FairSpec == Spec /\ WF_vars(ReadStep)

-----------------------------------------------------------------------------
(***************************************************************************)
(* Properties.                                                             *)
(***************************************************************************)

TypeOK ==
    /\ HistTypeOK
    /\ pc \in {"idle", "scan", "probe", "done"}
    /\ keys \subseteq Epoch /\ floor \in Epoch /\ hint \in Epoch
    /\ anchor \in Backup \cup {None}
    /\ opened \subseteq seen
    /\ upper \in 0..(LastEpoch + Probe)

Genuine(S) == {m \in S : m.id # Junk}

\* No Probe rotations in a row went without a backup, and none of the
\* backups is further below the operator's starting epoch than that.
InReach(S) ==
    \A m \in Genuine(S) :
        /\ floor < m.id.epoch + Probe
        /\ \/ m.id.epoch <= floor + Probe
           \/ \E n \in Genuine(S) :
                 n.id.epoch < m.id.epoch /\ m.id.epoch <= n.id.epoch + Probe

\* A reader with the recovery words opens every backup it can see, so it
\* works with the newest there is, or refuses when two share that place
\* (discover.go, maxEpochProbe: "the upward search follows a chain of
\* rotations as long as no 64 rotations in a row went without a backup").
NewestChosen ==
    (pc = "done" /\ keys = Epoch /\ InReach(seen)) =>
        /\ opened = Genuine(seen)
        /\ Chosen => \A n \in Genuine(seen) : n.id = choice.m.id \/ Newer(choice.m.id, n.id)

\* Whatever the server still holds and whoever writes in between, the run
\* never settles for a backup older than the anchor it verified
\* (discover.go, AnchorMissing).
NotOlderThanAnchor ==
    (Chosen /\ anchor # None) => ~Newer(anchor, choice.m.id)

\* When the server held everything, the anchored backup is never reported
\* missing, although backups are being written: the anchor is read first, the
\* history second, and a manifest lands no later than its anchor (discover.go,
\* Run).
AnchorFound == (pc = "done" /\ seen = hist) => choice.kind # "missing"

\* The verified anchor is a lower bound that can be relied on: nothing below
\* it is chosen, and it is not called missing while it is there (Run).
AnchorHonoured == NotOlderThanAnchor /\ AnchorFound

\* Nothing newer than the selected backup is passed over in silence: a
\* reader with an old key file is told that later manifests did not open
\* (discover.go, Run: "One that landed after it may be the newest backup, so
\* say so").
StaleKeyTold ==
    (Chosen /\ \E n \in Genuine(seen) : Newer(n.id, choice.m.id)) => RejectedAfter # {}

\* The search ends: every pass moves the upper end or is the last.
SearchEnds == (pc \in {"scan", "probe"}) ~> (pc \in {"idle", "done"})
=============================================================================
