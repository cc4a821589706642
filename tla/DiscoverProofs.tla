--------------------------- MODULE DiscoverProofs ---------------------------
(***************************************************************************)
(* Proofs about modules History and Discover, for every number of hosts,   *)
(* epochs, seqs, ledgers and servers, and every probe distance.            *)
(***************************************************************************)
EXTENDS Discover, TLAPS, FiniteSetTheorems, WellFoundedInduction

Landed(b) == \E m \in hist : m.id = b

\* What holds of the account's history whatever happens.
HistInv ==
    /\ HistTypeOK
    /\ hist \subseteq [id : Backup \cup {Junk}, lgr : Nat]
    /\ IsFiniteSet(hist)
    /\ \A h \in Hosts : stage[h] # "idle" => plan[h] \in Backup
    /\ \A h \in Hosts : stage[h] = "landed" => Landed(plan[h])
    /\ \A f \in flight : f.part = "landed" => Landed(f.id)
    /\ did # None => Landed(did)

\* A backup is planned on top of a history without gaps: every lower seq of
\* its epoch has landed.
OnTop(b) ==
    \A k \in 1..(b.seq - 1) : \E n \in hist :
        n.id # Junk /\ n.id.epoch = b.epoch /\ n.id.seq = k

GapFree ==
    /\ \A m \in hist : m.id # Junk => OnTop(m.id)
    /\ \A h \in Hosts : stage[h] # "idle" => OnTop(plan[h])
    /\ \A f \in flight : OnTop(f.id)

\* One host writes, every server it asks has the whole history, and no seq is
\* forced.  Its runs may be cut anywhere, and what they sent may land late.
OneWriter ==
    /\ \A g, h \in Hosts : g = h
    /\ Events \cap {"prune", "force"} = {}

\* Nothing is of a later epoch than the key file.
EpochsKnown ==
    /\ \A h \in Hosts : stage[h] # "idle" => plan[h].epoch <= key[h]
    /\ \A h \in Hosts : \A m \in hist : m.id # Junk => m.id.epoch <= key[h]
    /\ \A h \in Hosts : \A f \in flight : f.id.epoch <= key[h]

\* The backups landed one after the other, none older than one before it.
Sorted ==
    /\ \A m, n \in hist : (m.id # Junk /\ n.id # Junk /\ m.lgr < n.lgr) => ~Newer(m.id, n.id)
    /\ \A m, n \in hist : m.lgr = n.lgr => m = n

\* What may still land is not older than what has landed, and what the host
\* is about not older than what an interrupted run left in flight.
Ahead ==
    /\ \A h \in Hosts : stage[h] \in {"planned", "landed", "done"} =>
          \A n \in hist : n.id # Junk => ~Newer(n.id, plan[h])
    /\ \A h \in Hosts : stage[h] = "planned" => \A f \in flight : ~Newer(f.id, plan[h])
    /\ \A f \in flight : f.part = "planned" =>
          \A n \in hist : n.id # Junk => ~Newer(n.id, f.id)

\* A run of which something has landed has nothing behind it any more.
Settled ==
    /\ \A h \in Hosts : stage[h] \in {"landed", "done"} => flight = {}
    /\ \A h \in Hosts : stage[h] = "done" => did \in {plan[h], None} /\ Landed(plan[h])

Ordered == EpochsKnown /\ Sorted /\ Ahead /\ Settled

\* The epochs the search has been through.
Tried == {e \in 0..(LastEpoch + Probe) : floor + 1 <= e + Probe /\ e <= upper}

\* What holds of a reader.
ReadInv ==
    /\ pc \in {"idle", "scan", "probe", "done"}
    /\ keys \subseteq Epoch /\ floor \in Epoch /\ hint \in Epoch /\ floor <= hint
    /\ anchor # None => anchor \in Backup /\ Landed(anchor) /\ anchor.epoch \in keys
                        /\ anchor.epoch <= hint
    /\ seen \subseteq hist
    /\ upper \in 0..(LastEpoch + Probe)
    /\ pc \in {"idle", "scan"} => seen = {} /\ opened = {}
    /\ pc \in {"probe", "done"} =>
          hint + Probe <= upper /\ opened = Opens(seen, Tried)
    /\ pc = "done" => ~CanWiden /\ choice = Choose

-----------------------------------------------------------------------------
(***************************************************************************)
(* Least and greatest.                                                     *)
(***************************************************************************)

LEMMA LeastNat ==
    ASSUME NEW T, T \subseteq Nat, T # {}
    PROVE  \E x \in T : \A y \in T : x <= y
  <1>1. IsWellFoundedOn(OpToRel(<, Nat), Nat)
    BY NatLessThanWellFounded
  <1> DEFINE R == OpToRel(<, Nat)
  <1>2. \A x, y \in Nat : <<y, x>> \in R <=> y < x
    BY DEF OpToRel
  <1>3. IsWellFoundedOn(R, Nat)
    BY <1>1
  <1> HIDE DEF R
  <1>4. PICK x \in T : \A y \in T : ~(<<y, x>> \in R)
    BY <1>3, WFMin
  <1>5. \A y \in T : ~(y < x)
    BY <1>2, <1>4, Zenon
  <1> QED BY <1>5

LEMMA GreatestNat ==
    ASSUME NEW N \in Nat, NEW T, T \subseteq 0..N, T # {}
    PROVE  \E x \in T : \A y \in T : y <= x
  <1> DEFINE U == {N - x : x \in T}
  <1>0. \A x \in T : N - x \in Nat
    OBVIOUS
  <1>1. U \subseteq Nat /\ U # {}
    BY <1>0, Zenon
  <1>2. PICK u \in U : \A v \in U : u <= v
    BY <1>1, LeastNat
  <1>3. PICK x \in T : u = N - x
    OBVIOUS
  <1>4. \A y \in T : N - x <= N - y
    BY <1>2, <1>3
  <1> QED BY <1>4

\* Max of a bounded set of numbers is in it and bounds it.
LEMMA MaxBounded ==
    ASSUME NEW N \in Nat, NEW T, T \subseteq 0..N, T # {}
    PROVE  Max(T) \in T /\ \A y \in T : y <= Max(T)
  <1>1. \E x \in T : \A y \in T : x >= y
    BY GreatestNat
  <1> QED BY <1>1 DEF Max

-----------------------------------------------------------------------------
(***************************************************************************)
(* The history.                                                            *)
(***************************************************************************)

LEMMA Markers == Junk \notin Backup /\ None \notin Backup /\ Junk # None
  BY HistoryAssumption DEF Backup, Junk, None

LEMMA BackupType ==
    ASSUME NEW b \in Backup
    PROVE  b.epoch \in Nat /\ b.epoch \in Epoch /\ b.seq \in Nat /\ b.seq \in 1..LastSeq
  BY HistoryAssumption DEF Backup, Epoch

LEMMA GenuineType ==
    ASSUME HistInv, NEW m \in hist, m.id # Junk
    PROVE  m.id \in Backup /\ m.lgr \in Nat
  BY DEF HistInv

\* NextSeq is one above every backup the key file opens, and the backup just
\* below it, if any, is there (backup.go, NextSeq).
LEMMA NextSeqIs ==
    ASSUME HistInv, NEW h \in Hosts, NEW o
    PROVE  /\ NextSeq(h, o) \in Nat \ {0}
           /\ \A m \in OpenedBy(key[h], o) : m.id.seq < NextSeq(h, o)
           /\ NextSeq(h, o) = 1 \/ \E m \in OpenedBy(key[h], o) : m.id.seq = NextSeq(h, o) - 1
  <1> DEFINE T == {0} \cup {m.id.seq : m \in OpenedBy(key[h], o)}
  <1>1. \A m \in OpenedBy(key[h], o) : m.id.seq \in 1..LastSeq
    BY GenuineType, BackupType DEF OpenedBy, Visible
  <1>2. T \subseteq 0..LastSeq /\ T # {} /\ LastSeq \in Nat
    BY <1>1, HistoryAssumption
  <1>3. Max(T) \in T /\ \A y \in T : y <= Max(T)
    BY <1>2, MaxBounded
  <1>4. NextSeq(h, o) = 1 + Max(T) /\ Max(T) \in Nat
    BY <1>2, <1>3 DEF NextSeq
  <1>5. \A m \in OpenedBy(key[h], o) : m.id.seq \in T
    OBVIOUS
  <1>6. Max(T) = 0 \/ \E m \in OpenedBy(key[h], o) : m.id.seq = Max(T)
    BY <1>3
  <1> HIDE DEF T
  <1>7. \A m \in OpenedBy(key[h], o) : m.id.seq < NextSeq(h, o)
    BY <1>1, <1>3, <1>4, <1>5
  <1>8. NextSeq(h, o) = 1 \/ \E m \in OpenedBy(key[h], o) : m.id.seq = NextSeq(h, o) - 1
    BY <1>4, <1>6
  <1> QED BY <1>4, <1>7, <1>8

\* A manifest that lands in the next ledger.
LEMMA Grow ==
    ASSUME HistInv, NEW b \in Backup \cup {Junk}, Close, hist' = hist \cup {At(b, ledger')}
    PROVE  /\ \A m \in hist' : m.id \in Backup \cup {Junk} /\ m.lgr \in 1..ledger'
           /\ hist' \subseteq [id : Backup \cup {Junk}, lgr : Nat]
           /\ IsFiniteSet(hist')
           /\ \A c : Landed(c) => Landed(c)'
           /\ Landed(b)'
           /\ ledger' \in 0..MaxLedger /\ flight' = {}
  <1>1. IsFiniteSet(hist')
    BY FS_AddElement DEF HistInv
  <1>2. ledger' = ledger + 1 /\ ledger' \in 0..MaxLedger /\ flight' = {} /\ ledger \in Nat
    BY HistoryAssumption DEF Close, HistInv, HistTypeOK
  <1>3. At(b, ledger') \in [id : Backup \cup {Junk}, lgr : Nat]
        /\ At(b, ledger').id = b /\ At(b, ledger').lgr = ledger'
    BY <1>2 DEF At
  <1>4. \A m \in hist' : m.id \in Backup \cup {Junk} /\ m.lgr \in 1..ledger'
    BY <1>2, <1>3 DEF HistInv, HistTypeOK
  <1> QED BY <1>1, <1>2, <1>3, <1>4 DEF HistInv, Landed

LEMMA InitHistInv == HistInit => HistInv
  <1> SUFFICES ASSUME HistInit PROVE HistInv
    OBVIOUS
  <1>1. IsFiniteSet(hist)
    BY FS_EmptySet DEF HistInit
  <1> QED BY <1>1, HistoryAssumption DEF HistInit, HistInv, HistTypeOK, Epoch

LEMMA PlanKeepsHist ==
    ASSUME HistInv, NEW h \in Hosts, NEW b \in Backup,
           plan' = [plan EXCEPT ![h] = b],
           stage' = [stage EXCEPT ![h] = "planned"],
           UNCHANGED <<ledger, hist, did, flight, key>>
    PROVE  HistInv'
  <1>1. HistTypeOK'
    BY DEF HistInv, HistTypeOK
  <1>2. \A g \in Hosts : stage'[g] # "idle" => plan'[g] \in Backup
    BY DEF HistInv, HistTypeOK
  <1>3. \A g \in Hosts : stage'[g] = "landed" => Landed(plan[g])'
    BY DEF HistInv, HistTypeOK, Landed
  <1> QED BY <1>1, <1>2, <1>3 DEF HistInv, Landed

\* The plans are backups of the host's epoch.
LEMMA PlannedType ==
    ASSUME HistInv, NEW h \in Hosts, NEW body \in Bodies
    PROVE  /\ [body |-> body, epoch |-> key[h], seq |-> 1] \in Backup
           /\ \A o : NextSeq(h, o) <= LastSeq =>
                 [body |-> body, epoch |-> key[h], seq |-> NextSeq(h, o)] \in Backup
  <1>1. key[h] \in Epoch
    BY DEF HistInv, HistTypeOK
  <1>2. ASSUME NEW o, NextSeq(h, o) <= LastSeq
        PROVE  NextSeq(h, o) \in 1..LastSeq
    <2>1. NextSeq(h, o) \in Nat \ {0}
      BY NextSeqIs
    <2> QED BY <1>2, <2>1, HistoryAssumption
  <1> QED BY <1>1, <1>2, HistoryAssumption DEF Backup

LEMMA StepHistInv ==
    ASSUME HistInv, HistNext
    PROVE  HistInv'
  <1> USE HistoryAssumption
  <1>1. ASSUME NEW h \in Hosts, NEW body \in Bodies, NEW o, Plan(h, body, o) PROVE HistInv'
    BY <1>1, PlannedType, PlanKeepsHist DEF Plan
  <1>2. ASSUME NEW h \in Hosts, NEW body \in Bodies, PlanForced(h, body) PROVE HistInv'
    BY <1>2, PlannedType, PlanKeepsHist DEF PlanForced
  <1>3. ASSUME NEW h \in Hosts, LandManifest(h) PROVE HistInv'
    <2>1. plan[h] \in Backup
      BY <1>3 DEF LandManifest, HistInv
    <2>2. /\ Close /\ hist' = hist \cup {At(plan[h], ledger')}
          /\ stage' = [stage EXCEPT ![h] = "landed"] /\ UNCHANGED <<did, key, plan>>
          /\ stage[h] = "planned"
      BY <1>3 DEF LandManifest
    <2>3. /\ \A m \in hist' : m.id \in Backup \cup {Junk} /\ m.lgr \in 1..ledger'
          /\ hist' \subseteq [id : Backup \cup {Junk}, lgr : Nat]
          /\ IsFiniteSet(hist')
          /\ \A c : Landed(c) => Landed(c)'
          /\ Landed(plan[h])'
          /\ ledger' \in 0..MaxLedger /\ flight' = {}
      BY <2>1, <2>2, Grow
    <2>4. HistTypeOK'
      BY <2>2, <2>3 DEF HistInv, HistTypeOK
    <2>5. \A g \in Hosts : stage'[g] = "landed" => Landed(plan[g])'
      BY <2>2, <2>3 DEF HistInv, HistTypeOK, Landed
    <2> QED BY <2>2, <2>3, <2>4, <2>5 DEF HistInv, HistTypeOK, Landed
  <1>4. ASSUME NEW h \in Hosts, LandAnchor(h) PROVE HistInv'
    <2>1. HistTypeOK'
      BY <1>4 DEF LandAnchor, Close, HistInv, HistTypeOK
    <2> QED BY <1>4, <2>1 DEF LandAnchor, Close, HistInv, HistTypeOK, Landed
  <1>5. ASSUME NEW h \in Hosts, LandBatch(h) PROVE HistInv'
    <2>1. plan[h] \in Backup
      BY <1>5 DEF LandBatch, HistInv
    <2>2. /\ Close /\ hist' = hist \cup {At(plan[h], ledger')} /\ did' = plan[h]
          /\ stage' = [stage EXCEPT ![h] = "done"] /\ UNCHANGED <<key, plan>>
          /\ stage[h] = "planned"
      BY <1>5 DEF LandBatch
    <2>3. /\ \A m \in hist' : m.id \in Backup \cup {Junk} /\ m.lgr \in 1..ledger'
          /\ hist' \subseteq [id : Backup \cup {Junk}, lgr : Nat]
          /\ IsFiniteSet(hist')
          /\ \A c : Landed(c) => Landed(c)'
          /\ Landed(plan[h])'
          /\ ledger' \in 0..MaxLedger /\ flight' = {}
      BY <2>1, <2>2, Grow
    <2>4. HistTypeOK'
      BY <2>1, <2>2, <2>3 DEF HistInv, HistTypeOK
    <2>5. \A g \in Hosts : stage'[g] = "landed" => Landed(plan[g])'
      BY <2>2, <2>3 DEF HistInv, HistTypeOK, Landed
    <2> QED BY <2>2, <2>3, <2>4, <2>5 DEF HistInv, HistTypeOK, Landed
  <1>6. ASSUME NEW h \in Hosts, DeleteAnchor(h) PROVE HistInv'
    <2>1. HistTypeOK'
      BY <1>6 DEF DeleteAnchor, Close, HistInv, HistTypeOK
    <2> QED BY <1>6, <2>1 DEF DeleteAnchor, Close, HistInv, HistTypeOK, Landed
  <1>7. ASSUME NEW h \in Hosts, Interrupt(h) PROVE HistInv'
    <2>1. /\ stage' = [stage EXCEPT ![h] = "cut"] /\ stage[h] \in {"planned", "landed"}
          /\ UNCHANGED <<ledger, hist, did, key, plan>>
          /\ flight' = flight \/ flight' = flight \cup {[part |-> stage[h], id |-> plan[h]]}
      BY <1>7 DEF Interrupt
    <2>2. plan[h] \in Backup /\ (stage[h] = "landed" => Landed(plan[h]))
      BY <2>1 DEF HistInv
    <2>3. flight' \subseteq [part : {"planned", "landed"}, id : Backup]
          /\ \A f \in flight' : f.part = "landed" => Landed(f.id)
      BY <2>1, <2>2 DEF HistInv, HistTypeOK
    <2>4. HistTypeOK'
      BY <2>1, <2>3 DEF HistInv, HistTypeOK
    <2> QED BY <2>1, <2>3, <2>4 DEF HistInv, HistTypeOK, Landed
  <1>8. ASSUME NEW h \in Hosts, Rotate(h) PROVE HistInv'
    <2>1. key' \in [Hosts -> Epoch]
      BY <1>8 DEF Rotate, HistInv, HistTypeOK, Epoch
    <2> QED BY <1>8, <2>1 DEF Rotate, HistInv, HistTypeOK, Landed
  <1>9. CASE LandLate
    <2>1. PICK f \in flight :
             /\ Close
             /\ IF f.part = "planned"
                THEN hist' = hist \cup {At(f.id, ledger')} /\ UNCHANGED did
                ELSE did' = f.id /\ UNCHANGED hist
             /\ UNCHANGED <<key, stage, plan>>
      BY <1>9 DEF LandLate
    <2>2. f.id \in Backup /\ f.part \in {"planned", "landed"} /\ (f.part = "landed" => Landed(f.id))
      BY DEF HistInv, HistTypeOK
    <2>3. CASE f.part = "planned"
      <3>1. /\ \A m \in hist' : m.id \in Backup \cup {Junk} /\ m.lgr \in 1..ledger'
            /\ hist' \subseteq [id : Backup \cup {Junk}, lgr : Nat]
            /\ IsFiniteSet(hist')
            /\ \A c : Landed(c) => Landed(c)'
            /\ ledger' \in 0..MaxLedger /\ flight' = {}
        BY <2>1, <2>2, <2>3, Grow
      <3>2. HistTypeOK'
        BY <2>1, <2>3, <3>1 DEF HistInv, HistTypeOK
      <3> QED BY <2>1, <2>3, <3>1, <3>2 DEF HistInv, HistTypeOK, Landed
    <2>4. CASE f.part # "planned"
      <3>1. HistTypeOK'
        BY <2>1, <2>2, <2>4 DEF Close, HistInv, HistTypeOK
      <3> QED BY <2>1, <2>2, <2>4, <3>1 DEF Close, HistInv, HistTypeOK, Landed
    <2> QED BY <2>3, <2>4
  <1>10. CASE PostJunk
    <2>1. Close /\ hist' = hist \cup {At(Junk, ledger')} /\ UNCHANGED <<did, key, stage, plan>>
      BY <1>10 DEF PostJunk
    <2>2. /\ \A m \in hist' : m.id \in Backup \cup {Junk} /\ m.lgr \in 1..ledger'
          /\ hist' \subseteq [id : Backup \cup {Junk}, lgr : Nat]
          /\ IsFiniteSet(hist')
          /\ \A c : Landed(c) => Landed(c)'
          /\ ledger' \in 0..MaxLedger /\ flight' = {}
      BY <2>1, Grow
    <2>3. HistTypeOK'
      BY <2>1, <2>2 DEF HistInv, HistTypeOK
    <2> QED BY <2>1, <2>2, <2>3 DEF HistInv, HistTypeOK, Landed
  <1> QED
    BY <1>1, <1>2, <1>3, <1>4, <1>5, <1>6, <1>7, <1>8, <1>9, <1>10 DEF HistNext

\* The backup a host plans with NextSeq.
Planned(h, body, o) == [body |-> body, epoch |-> key[h], seq |-> NextSeq(h, o)]

\* How one step of the writers changes what the orders below are about.
LEMMA HistEffects ==
    ASSUME HistInv, HistNext
    PROVE  /\ hist \subseteq hist'
           /\ \A m \in hist' \ hist :
                 \/ m.id = Junk
                 \/ \E h \in Hosts : stage[h] = "planned" /\ m.id = plan[h]
                 \/ \E f \in flight : f.part = "planned" /\ m.id = f.id
           /\ \A h \in Hosts : stage'[h] # "idle" =>
                 \/ stage[h] # "idle" /\ plan'[h] = plan[h]
                 \/ \E body \in Bodies, o \in Servers : plan'[h] = Planned(h, body, o)
                 \/ plan'[h].seq = 1
           /\ \A f \in flight' :
                 f \in flight \/ \E h \in Hosts : stage[h] # "idle" /\ f.id = plan[h]
  <1>0. stage \in [Hosts -> {"idle", "planned", "landed", "done", "cut"}]
        /\ plan \in [Hosts -> Backup \cup {None}]
    BY DEF HistInv, HistTypeOK
  <1>1. ASSUME NEW h \in Hosts, NEW body \in Bodies, NEW o \in Servers, Plan(h, body, o)
        PROVE  /\ UNCHANGED <<hist, flight>>
               /\ \A g \in Hosts : stage'[g] # "idle" =>
                     \/ stage[g] # "idle" /\ plan'[g] = plan[g]
                     \/ g = h /\ plan'[g] = Planned(h, body, o)
    <2>1. /\ UNCHANGED <<hist, flight>>
          /\ plan' = [plan EXCEPT ![h] = Planned(h, body, o)]
          /\ stage' = [stage EXCEPT ![h] = "planned"]
      BY <1>1, Zenon DEF Plan, Planned
    <2> QED BY <1>0, <2>1
  <1>2. ASSUME NEW h \in Hosts, NEW body \in Bodies, PlanForced(h, body)
        PROVE  /\ UNCHANGED <<hist, flight>>
               /\ \A g \in Hosts : stage'[g] # "idle" =>
                     (stage[g] # "idle" /\ plan'[g] = plan[g]) \/ plan'[g].seq = 1
    BY <1>0, <1>2 DEF PlanForced
  <1>3. ASSUME NEW h \in Hosts,
               LandManifest(h) \/ LandAnchor(h) \/ LandBatch(h) \/ DeleteAnchor(h)
                 \/ Interrupt(h) \/ Rotate(h)
        PROVE  /\ \A g \in Hosts : stage'[g] # "idle" => stage[g] # "idle" /\ plan'[g] = plan[g]
               /\ \A f \in flight' : f \in flight \/ (stage[h] # "idle" /\ f.id = plan[h])
               /\ hist' = hist \/ (stage[h] = "planned" /\ hist' = hist \cup {At(plan[h], ledger')})
    BY <1>0, <1>3 DEF LandManifest, LandAnchor, LandBatch, DeleteAnchor, Interrupt, Rotate, Close
  <1>4. ASSUME LandLate \/ PostJunk
        PROVE  /\ UNCHANGED <<stage, plan>> /\ flight' = {}
               /\ \/ hist' = hist
                  \/ hist' = hist \cup {At(Junk, ledger')}
                  \/ \E f \in flight : f.part = "planned" /\ hist' = hist \cup {At(f.id, ledger')}
    BY <1>4 DEF LandLate, PostJunk, Close
  <1>5. \A b, l : At(b, l).id = b
    BY DEF At
  <1>6. ASSUME NEW h \in Hosts, NEW body \in Bodies, NEW o \in Servers, Plan(h, body, o)
        PROVE  \A g \in Hosts : stage'[g] # "idle" =>
                 \/ stage[g] # "idle" /\ plan'[g] = plan[g]
                 \/ \E b \in Bodies, q \in Servers : plan'[g] = Planned(g, b, q)
    BY <1>1, <1>6
  <1>7. CASE \E h \in Hosts, body \in Bodies : (\E o \in Servers : Plan(h, body, o)) \/ PlanForced(h, body)
    BY <1>1, <1>2, <1>6, <1>7
  <1>8. CASE \E h \in Hosts : LandManifest(h) \/ LandAnchor(h) \/ LandBatch(h) \/ DeleteAnchor(h)
                 \/ Interrupt(h) \/ Rotate(h)
    BY <1>3, <1>5, <1>8
  <1>9. CASE LandLate \/ PostJunk
    BY <1>4, <1>5, <1>9
  <1> QED BY <1>7, <1>8, <1>9 DEF HistNext

\* With whole histories to read, the key file opens every backup of its epoch.
LEMMA ServersWhole ==
    ASSUME HistInv, "prune" \notin Events, NEW o \in Servers, NEW m \in hist, m.id # Junk
    PROVE  m \in OpenedBy(m.id.epoch, o)
  <1>1. o = 1 /\ m.lgr \in 1..ledger
    BY DEF Servers, HistInv, HistTypeOK
  <1> QED BY <1>1, HistoryAssumption DEF OpenedBy, Visible, HistInv, HistTypeOK

LEMMA StepGapFree ==
    ASSUME "prune" \notin Events, HistInv, GapFree, HistNext
    PROVE  GapFree'
  <1>1. ASSUME NEW b, OnTop(b) PROVE OnTop(b)'
    BY <1>1, HistEffects DEF OnTop
  <1>2. ASSUME NEW b, b.seq = 1 PROVE OnTop(b)
    BY <1>2 DEF OnTop
  <1>3. ASSUME NEW h \in Hosts, NEW body \in Bodies, NEW o \in Servers
        PROVE  OnTop(Planned(h, body, o))
    <2> DEFINE N == NextSeq(h, o)
    <2>1. N \in Nat \ {0} /\ (N = 1 \/ \E m \in OpenedBy(key[h], o) : m.id.seq = N - 1)
      BY NextSeqIs
    <2>2. Planned(h, body, o).seq = N /\ Planned(h, body, o).epoch = key[h]
      BY DEF Planned
    <2> HIDE DEF N
    <2>3. CASE N = 1
      BY <1>2, <2>2, <2>3
    <2>4. CASE \E m \in OpenedBy(key[h], o) : m.id.seq = N - 1
      <3>1. PICK m \in hist : m.id # Junk /\ m.id.epoch = key[h] /\ m.id.seq = N - 1
        BY <2>4 DEF OpenedBy, Visible
      <3>2. \A k \in 1..(m.id.seq - 1) : \E n \in hist :
                n.id # Junk /\ n.id.epoch = m.id.epoch /\ n.id.seq = k
        BY <3>1 DEF GapFree, OnTop
      <3>3. \A k \in 1..(N - 1) : k = N - 1 \/ k \in 1..(m.id.seq - 1)
        BY <2>1, <3>1
      <3> QED BY <2>2, <3>1, <3>2, <3>3 DEF OnTop
    <2> QED BY <2>1, <2>3, <2>4
  <1>4. \A m \in hist' : m.id # Junk => OnTop(m.id)'
    <2> SUFFICES ASSUME NEW m \in hist', m.id # Junk PROVE OnTop(m.id)'
      OBVIOUS
    <2>1. OnTop(m.id)
      BY HistEffects DEF GapFree
    <2> QED BY <1>1, <2>1
  <1>5. ASSUME NEW h \in Hosts, stage'[h] # "idle" PROVE OnTop(plan[h])'
    <2>1. PICK b : b = plan'[h]
      OBVIOUS
    <2>2. OnTop(b)
      BY <1>2, <1>3, <1>5, <2>1, HistEffects DEF GapFree
    <2>3. OnTop(b)'
      BY <1>1, <2>2
    <2> QED BY <2>1, <2>3 DEF OnTop
  <1>6. \A f \in flight' : OnTop(f.id)'
    <2> SUFFICES ASSUME NEW f \in flight' PROVE OnTop(f.id)'
      OBVIOUS
    <2>1. OnTop(f.id)
      BY HistEffects DEF GapFree
    <2> QED BY <1>1, <2>1
  <1> QED BY <1>4, <1>5, <1>6 DEF GapFree

LEMMA InitGapFree == HistInit => GapFree
  BY DEF HistInit, GapFree

LEMMA InitOrdered == HistInit => Ordered
  BY DEF HistInit, Ordered, EpochsKnown, Sorted, Ahead, Settled

\* A backup planned now is above all that has landed, and not below what is
\* in flight: that was planned on top of what had landed then.
LEMMA PlannedAhead ==
    ASSUME OneWriter, HistInv, GapFree, EpochsKnown,
           NEW h \in Hosts, NEW body \in Bodies, NEW o \in Servers
    PROVE  /\ \A n \in hist : n.id # Junk => ~Newer(n.id, Planned(h, body, o))
           /\ \A f \in flight : ~Newer(f.id, Planned(h, body, o))
  <1> DEFINE N == NextSeq(h, o)
  <1>1. /\ N \in Nat \ {0} /\ \A m \in OpenedBy(key[h], o) : m.id.seq < N
        /\ key[h] \in Nat
        /\ Planned(h, body, o).seq = N /\ Planned(h, body, o).epoch = key[h]
    BY NextSeqIs, HistoryAssumption DEF Planned, HistInv, HistTypeOK, Epoch
  <1> HIDE DEF N
  <1>2. ASSUME NEW n \in hist, n.id # Junk
        PROVE  /\ n.id.epoch \in Nat /\ n.id.seq \in Nat /\ n.id.epoch <= key[h]
               /\ n.id.epoch = key[h] => n.id.seq < N
    <2>1. n.id.epoch \in Nat /\ n.id.seq \in Nat /\ n.id.epoch <= key[h]
      BY <1>2, GenuineType, BackupType DEF EpochsKnown
    <2>2. n \in OpenedBy(n.id.epoch, o)
      BY <1>2, ServersWhole DEF OneWriter
    <2> QED BY <1>1, <2>1, <2>2
  <1>3. ASSUME NEW n \in hist, n.id # Junk PROVE ~Newer(n.id, Planned(h, body, o))
    BY <1>1, <1>2, <1>3 DEF Newer
  <1>4. ASSUME NEW f \in flight PROVE ~Newer(f.id, Planned(h, body, o))
    <2>1. f.id.epoch \in Nat /\ f.id.seq \in Nat \ {0} /\ f.id.epoch <= key[h]
      BY BackupType, HistoryAssumption DEF HistInv, HistTypeOK, EpochsKnown
    <2>2. ASSUME f.id.epoch = key[h], f.id.seq # 1 PROVE f.id.seq <= N
      <3>1. f.id.seq - 1 \in 1..(f.id.seq - 1)
        BY <2>1, <2>2
      <3>2. PICK n \in hist : n.id # Junk /\ n.id.epoch = f.id.epoch /\ n.id.seq = f.id.seq - 1
        BY <3>1 DEF GapFree, OnTop
      <3> QED BY <1>1, <1>2, <2>1, <2>2, <3>2
    <2>3. f.id.epoch = key[h] => f.id.seq <= N
      BY <1>1, <2>2
    <2> QED BY <1>1, <2>1, <2>3 DEF Newer
  <1> QED BY <1>3, <1>4

\* A backup that lands and is not older than what has landed.
LEMMA LandsInOrder ==
    ASSUME HistInv, Sorted, NEW b \in Backup \cup {Junk}, Close,
           hist' = hist \cup {At(b, ledger')},
           b # Junk => \A n \in hist : n.id # Junk => ~Newer(n.id, b)
    PROVE  Sorted'
  <1>1. ledger' = ledger + 1 /\ ledger \in Nat /\ \A n \in hist : n.lgr \in Nat /\ n.lgr < ledger'
    BY HistoryAssumption DEF HistInv, HistTypeOK, Close
  <1>2. At(b, ledger').id = b /\ At(b, ledger').lgr = ledger'
    BY DEF At
  <1>3. \A m, n \in hist' : (m.id # Junk /\ n.id # Junk /\ m.lgr < n.lgr) => ~Newer(m.id, n.id)
    BY <1>1, <1>2 DEF Sorted
  <1>4. \A m, n \in hist' : m.lgr = n.lgr => m = n
    BY <1>1, <1>2 DEF Sorted
  <1> QED BY <1>3, <1>4 DEF Sorted

\* No backup is newer than itself.
LEMMA NotNewerThanItself == ASSUME NEW b \in Backup PROVE ~Newer(b, b)
  BY BackupType DEF Newer

LEMMA StepOrdered ==
    ASSUME OneWriter, HistInv, GapFree, Ordered, HistNext
    PROVE  Ordered'
  <1>0. /\ stage \in [Hosts -> {"idle", "planned", "landed", "done", "cut"}]
        /\ plan \in [Hosts -> Backup \cup {None}] /\ key \in [Hosts -> Epoch]
        /\ ledger \in Nat
    BY HistoryAssumption DEF HistInv, HistTypeOK
  <1>o. ASSUME NEW h \in Hosts PROVE \A g \in Hosts : g = h
    BY DEF OneWriter
  <1>1. ASSUME NEW h \in Hosts, NEW body \in Bodies, NEW o \in Servers, Plan(h, body, o)
        PROVE  Ordered'
    <2>1. /\ UNCHANGED <<hist, flight, key, did>>
          /\ plan' = [plan EXCEPT ![h] = Planned(h, body, o)]
          /\ stage' = [stage EXCEPT ![h] = "planned"]
      BY <1>1, Zenon DEF Plan, Planned
    <2>2. plan'[h] = Planned(h, body, o) /\ stage'[h] = "planned"
      BY <1>0, <2>1
    <2>3. Planned(h, body, o).epoch = key[h] /\ key[h] \in Nat
      BY <1>0, HistoryAssumption DEF Planned, Epoch
    <2>4. EpochsKnown'
      BY <1>o, <2>1, <2>2, <2>3 DEF Ordered, EpochsKnown
    <2>5. /\ \A n \in hist : n.id # Junk => ~Newer(n.id, Planned(h, body, o))
          /\ \A f \in flight : ~Newer(f.id, Planned(h, body, o))
      BY PlannedAhead DEF Ordered
    <2>6. Ahead'
      BY <1>o, <2>1, <2>2, <2>5 DEF Ordered, Ahead
    <2>7. Sorted' /\ Settled'
      BY <1>o, <2>1, <2>2 DEF Ordered, Sorted, Settled
    <2> QED BY <2>4, <2>6, <2>7 DEF Ordered
  <1>2. ASSUME NEW h \in Hosts, NEW body \in Bodies, PlanForced(h, body) PROVE FALSE
    BY <1>2 DEF PlanForced, OneWriter
  <1>3. ASSUME NEW h \in Hosts, LandManifest(h) \/ LandBatch(h) PROVE Ordered'
    <2>1. /\ stage[h] = "planned" /\ Close /\ hist' = hist \cup {At(plan[h], ledger')}
          /\ UNCHANGED <<key, plan>>
          /\ stage' = [stage EXCEPT ![h] = stage'[h]] /\ stage'[h] \in {"landed", "done"}
          /\ stage'[h] = "done" => did' = plan[h]
      BY <1>0, <1>3 DEF LandManifest, LandBatch
    <2>2. plan[h] \in Backup /\ flight' = {}
      BY <2>1 DEF HistInv, Close
    <2>3. /\ At(plan[h], ledger').id = plan[h] /\ plan[h] # Junk /\ ~Newer(plan[h], plan[h])
          /\ plan[h].epoch <= key[h]
          /\ \A n \in hist : n.id # Junk => ~Newer(n.id, plan[h])
      BY <2>1, <2>2, Markers, NotNewerThanItself DEF At, Ordered, EpochsKnown, Ahead
    <2>4. EpochsKnown'
      BY <1>o, <2>1, <2>2, <2>3 DEF Ordered, EpochsKnown
    <2>5. Sorted'
      BY <2>1, <2>2, <2>3, LandsInOrder DEF Ordered
    <2>6. Ahead'
      BY <1>o, <2>1, <2>2, <2>3 DEF Ordered, Ahead
    <2>7. Settled'
      <3>1. Landed(plan[h])'
        BY <2>1, <2>3 DEF Landed
      <3> QED BY <1>o, <2>1, <2>2, <3>1 DEF Settled
    <2> QED BY <2>4, <2>5, <2>6, <2>7 DEF Ordered
  <1>4. ASSUME NEW h \in Hosts, LandAnchor(h) \/ DeleteAnchor(h) PROVE Ordered'
    <2>1. /\ UNCHANGED <<hist, key, plan>> /\ flight' = {}
          /\ stage'[h] = "done" /\ stage[h] \in {"landed", "done"}
          /\ did' \in {plan[h], None}
      BY <1>0, <1>4 DEF LandAnchor, DeleteAnchor, Close
    <2>2. Landed(plan[h])
      BY <2>1 DEF HistInv, Ordered, Settled
    <2>3. EpochsKnown' /\ Sorted'
      BY <1>o, <2>1 DEF Ordered, EpochsKnown, Sorted
    <2>4. Ahead'
      BY <1>o, <2>1 DEF Ordered, Ahead
    <2>5. Settled'
      BY <1>o, <2>1, <2>2 DEF Settled, Landed
    <2> QED BY <2>3, <2>4, <2>5 DEF Ordered
  <1>5. ASSUME NEW h \in Hosts, Interrupt(h) PROVE Ordered'
    <2>1. /\ stage[h] \in {"planned", "landed"} /\ stage'[h] = "cut"
          /\ UNCHANGED <<hist, did, key, plan>>
          /\ \A f \in flight' : f \in flight \/ f = [part |-> stage[h], id |-> plan[h]]
      BY <1>0, <1>5 DEF Interrupt
    <2>2. \A f \in flight' : f \in flight \/ (f.part = stage[h] /\ f.id = plan[h])
      BY <2>1
    <2>3. plan[h].epoch <= key[h] /\ \A n \in hist : n.id # Junk => ~Newer(n.id, plan[h])
      BY <2>1 DEF Ordered, EpochsKnown, Ahead
    <2>4. EpochsKnown'
      BY <1>o, <2>1, <2>2, <2>3 DEF Ordered, EpochsKnown
    <2>5. Ahead'
      BY <1>o, <2>1, <2>2, <2>3 DEF Ordered, Ahead
    <2>6. Sorted' /\ Settled'
      BY <1>o, <2>1 DEF Ordered, Sorted, Settled
    <2> QED BY <2>4, <2>5, <2>6 DEF Ordered
  <1>6. ASSUME NEW h \in Hosts, Rotate(h) PROVE Ordered'
    <2>1. \A g \in Hosts : key[g] \in Nat /\ key'[g] \in Nat /\ key[g] <= key'[g]
      BY <1>0, <1>6, HistoryAssumption DEF Rotate, Epoch
    <2>2. UNCHANGED <<hist, did, flight, stage, plan>>
      BY <1>6 DEF Rotate
    <2>3. \A g \in Hosts : stage'[g] # "idle" => plan'[g].epoch <= key'[g]
      <3>1. \A g \in Hosts : stage[g] # "idle" => plan[g].epoch \in Nat /\ plan[g].epoch <= key[g]
        BY BackupType DEF HistInv, Ordered, EpochsKnown
      <3> QED BY <2>1, <2>2, <3>1
    <2>4. \A g \in Hosts : \A m \in hist' : m.id # Junk => m.id.epoch <= key'[g]
      <3>1. \A m \in hist : m.id # Junk => m.id.epoch \in Nat
        BY GenuineType, BackupType
      <3> QED BY <2>1, <2>2, <3>1 DEF Ordered, EpochsKnown
    <2>5. \A g \in Hosts : \A f \in flight' : f.id.epoch <= key'[g]
      <3>1. \A f \in flight : f.id.epoch \in Nat
        BY BackupType DEF HistInv, HistTypeOK
      <3> QED BY <2>1, <2>2, <3>1 DEF Ordered, EpochsKnown
    <2>6. EpochsKnown'
      BY <2>3, <2>4, <2>5 DEF EpochsKnown
    <2> QED BY <2>2, <2>6 DEF Ordered, Sorted, Ahead, Settled, Landed
  <1>7. CASE LandLate
    <2>1. PICK f \in flight :
             /\ Close /\ UNCHANGED <<key, stage, plan>>
             /\ \/ f.part = "planned" /\ hist' = hist \cup {At(f.id, ledger')}
                \/ UNCHANGED hist
      BY <1>7, Zenon DEF LandLate
    <2>2. f.id \in Backup /\ f.id # Junk /\ At(f.id, ledger').id = f.id /\ flight' = {}
      BY <2>1, Markers DEF HistInv, HistTypeOK, At, Close
    <2>3. \A h \in Hosts : stage[h] \notin {"landed", "done"}
      BY DEF Ordered, Settled
    <2>4. /\ \A h \in Hosts : f.id.epoch <= key[h]
          /\ \A h \in Hosts : stage[h] = "planned" => ~Newer(f.id, plan[h])
          /\ f.part = "planned" => \A n \in hist : n.id # Junk => ~Newer(n.id, f.id)
      BY DEF Ordered, EpochsKnown, Ahead
    <2>5. EpochsKnown'
      BY <2>1, <2>2, <2>4 DEF Ordered, EpochsKnown
    <2>6. Sorted'
      <3>1. CASE f.part = "planned" /\ hist' = hist \cup {At(f.id, ledger')}
        BY <2>1, <2>2, <2>4, <3>1, LandsInOrder DEF Ordered
      <3>2. CASE UNCHANGED hist
        BY <3>2 DEF Ordered, Sorted
      <3> QED BY <2>1, <3>1, <3>2
    <2>7. Ahead'
      BY <2>1, <2>2, <2>3, <2>4 DEF Ordered, Ahead
    <2>8. Settled'
      BY <2>1, <2>2, <2>3 DEF Settled
    <2> QED BY <2>5, <2>6, <2>7, <2>8 DEF Ordered
  <1>8. CASE PostJunk
    <2>1. /\ Close /\ flight' = {} /\ hist' = hist \cup {At(Junk, ledger')}
          /\ UNCHANGED <<did, key, stage, plan>> /\ At(Junk, ledger').id = Junk
      BY <1>8 DEF PostJunk, Close, At
    <2>2. Sorted'
      BY <2>1, LandsInOrder DEF Ordered
    <2>3. EpochsKnown' /\ Ahead'
      BY <2>1 DEF Ordered, EpochsKnown, Ahead
    <2>4. Settled'
      BY <2>1 DEF Ordered, Settled, Landed
    <2> QED BY <2>2, <2>3, <2>4 DEF Ordered
  <1> QED BY <1>1, <1>2, <1>3, <1>4, <1>5, <1>6, <1>7, <1>8 DEF HistNext

\* One step of NeverOlder.
LEMMA StepNeverOlder ==
    ASSUME HistInv, Ordered, HistNext, NEW m \in hist' \ hist, NEW n \in hist,
           m.id # Junk, n.id # Junk
    PROVE  ~Newer(n.id, m.id)
  <1>1. ASSUME NEW h \in Hosts, stage[h] = "planned", m.id = plan[h] PROVE ~Newer(n.id, m.id)
    BY <1>1 DEF Ordered, Ahead
  <1>2. ASSUME NEW f \in flight, f.part = "planned", m.id = f.id PROVE ~Newer(n.id, m.id)
    BY <1>2 DEF Ordered, Ahead
  <1> QED BY <1>1, <1>2, HistEffects

-----------------------------------------------------------------------------
(***************************************************************************)
(* The reader's search.                                                    *)
(***************************************************************************)

\* What is opened is genuine.
LEMMA OpenedType ==
    ASSUME HistInv, ReadInv, NEW m \in opened
    PROVE  /\ m \in hist /\ m \in seen /\ m.id # Junk /\ m.id \in Backup /\ m.lgr \in Nat
           /\ m.id.epoch \in Nat /\ m.id.epoch \in Epoch /\ m.id.seq \in Nat /\ m.id.seq \in 1..LastSeq
  <1>1. m \in hist /\ m \in seen /\ m.id # Junk
    BY DEF ReadInv, Opens
  <1> QED BY <1>1, GenuineType, BackupType

LEMMA TopIs ==
    ASSUME HistInv, ReadInv
    PROVE  top \in Epoch /\ hint <= top /\ \A m \in opened : m.id.epoch <= top
  <1> DEFINE T == {hint} \cup {m.id.epoch : m \in opened}
  <1>1. \A m \in opened : m.id.epoch \in 0..LastEpoch
    BY OpenedType DEF Epoch
  <1>2. T \subseteq 0..LastEpoch /\ T # {} /\ LastEpoch \in Nat
    BY <1>1, HistoryAssumption DEF ReadInv, Epoch
  <1>3. Max(T) \in T /\ \A y \in T : y <= Max(T)
    BY <1>2, MaxBounded
  <1>4. top = Max(T) /\ hint \in T /\ \A m \in opened : m.id.epoch \in T
    BY DEF top
  <1> HIDE DEF T
  <1> QED BY <1>2, <1>3, <1>4 DEF Epoch

LEMMA InitReadInv == Init => ReadInv
  BY HistoryAssumption, DiscoverAssumption DEF Init, ReadInv, Epoch, Opens

LEMMA ReadAnchorInv ==
    ASSUME HistInv, ReadInv, NEW ks \in SUBSET Epoch, NEW e \in Epoch, ReadAnchor(ks, e)
    PROVE  ReadInv'
  <1>1. /\ pc' = "scan" /\ keys' = ks /\ floor' = e
        /\ UNCHANGED <<hist, did, seen, opened, upper>> /\ seen = {} /\ opened = {}
    BY DEF ReadAnchor, ReadInv, histVars
  <1>2. CASE did # None /\ did.epoch \in ks
    <2>1. anchor' = did /\ did \in Backup /\ Landed(did) /\ did.epoch \in Epoch
      BY <1>2, BackupType DEF ReadAnchor, HistInv, HistTypeOK
    <2>2. hint' = IF did.epoch > e THEN did.epoch ELSE e
      BY <1>2, <2>1 DEF ReadAnchor
    <2>3. hint' \in Epoch /\ e <= hint' /\ did.epoch <= hint'
      BY <2>1, <2>2, HistoryAssumption DEF Epoch
    <2> QED BY <1>1, <1>2, <2>1, <2>3 DEF ReadInv, Landed
  <1>3. CASE ~(did # None /\ did.epoch \in ks)
    <2>1. anchor' = None /\ hint' = e
      BY <1>3 DEF ReadAnchor
    <2> QED BY <1>1, <2>1, HistoryAssumption DEF ReadInv, Epoch
  <1> QED BY <1>2, <1>3

LEMMA ScanInv ==
    ASSUME HistInv, ReadInv, NEW o, Scan(o)
    PROVE  ReadInv'
  <1>1. /\ pc' = "probe" /\ seen' = Visible(o) /\ upper' = hint + Probe
        /\ opened' = Opens(Visible(o), probeOrder)
        /\ UNCHANGED <<hist, keys, floor, hint, anchor>>
    BY DEF Scan, histVars
  <1>2. upper' \in 0..(LastEpoch + Probe) /\ hint' + Probe <= upper'
    BY <1>1, HistoryAssumption, DiscoverAssumption DEF ReadInv, Epoch
  <1>3. Tried' = probeOrder
    BY <1>1 DEF Tried, probeOrder
  <1>4. opened' = Opens(seen, Tried)'
    BY <1>1, <1>3 DEF Opens
  <1>5. seen' \subseteq hist'
    BY <1>1 DEF Visible
  <1> QED BY <1>1, <1>2, <1>4, <1>5 DEF ReadInv, Landed

LEMMA WidenInv ==
    ASSUME HistInv, ReadInv, Widen
    PROVE  ReadInv'
  <1>1. /\ pc = "probe" /\ upper' = top + Probe /\ top + Probe > upper
        /\ opened' = opened \cup Opens(seen \ opened, (upper + 1)..(top + Probe))
        /\ UNCHANGED <<hist, pc, keys, floor, hint, anchor, seen>>
    BY DEF Widen, CanWiden, histVars
  <1>2. /\ top \in Nat /\ top <= LastEpoch /\ hint \in Nat /\ floor \in Nat /\ floor <= hint
        /\ Probe \in Nat \ {0} /\ LastEpoch \in Nat /\ upper \in Nat /\ hint <= top
        /\ hint + Probe <= upper
    BY <1>1, TopIs, HistoryAssumption, DiscoverAssumption DEF ReadInv, Epoch
  <1>3. opened = Opens(seen, Tried) /\ keys \subseteq Epoch
    BY <1>1 DEF ReadInv
  <1>4. upper' \in 0..(LastEpoch + Probe) /\ hint' + Probe <= upper'
    BY <1>1, <1>2
  <1>5. \A e \in Epoch : e \in Tried' <=> (e \in Tried \/ e \in (upper + 1)..(top + Probe))
    BY <1>1, <1>2 DEF Tried, Epoch
  <1>6. \A e \in Epoch : e \in Tried => e \notin (upper + 1)..(top + Probe)
    BY <1>1, <1>2 DEF Tried, Epoch
  <1>7. opened' = Opens(seen, Tried)'
    <2>1. \A m \in seen : m \in opened <=> (m.id # Junk /\ m.id.epoch \in keys /\ m.id.epoch \in Tried)
      BY <1>3 DEF Opens
    <2>2. \A m : m \in opened' <=>
             \/ m \in opened
             \/ m \in seen /\ m \notin opened /\ m.id # Junk /\ m.id.epoch \in keys
                /\ m.id.epoch \in (upper + 1)..(top + Probe)
      BY <1>1 DEF Opens
    <2>3. \A m : m \in opened' <=>
             m \in seen /\ m.id # Junk /\ m.id.epoch \in keys /\ m.id.epoch \in Tried'
      BY <1>3, <1>5, <1>6, <2>1, <2>2 DEF Opens
    <2> QED BY <1>1, <2>3 DEF Opens
  <1> QED BY <1>1, <1>4, <1>7 DEF ReadInv, Landed

LEMMA StepReadInv ==
    ASSUME HistInv, ReadInv, [Next]_vars
    PROVE  ReadInv'
  <1>1. CASE Write
    <2>1. UNCHANGED readVars /\ pc \in {"idle", "scan"} /\ hist \subseteq hist'
      BY <1>1, HistEffects DEF Write
    <2> QED BY <2>1 DEF readVars, ReadInv, Landed
  <1>2. ASSUME NEW e \in Roots, ReadAnchor(Epoch, e) PROVE ReadInv'
    BY <1>2, ReadAnchorInv, DiscoverAssumption
  <1>3. ASSUME NEW e \in Files, ReadAnchor({e}, e) PROVE ReadInv'
    BY <1>3, ReadAnchorInv, DiscoverAssumption
  <1>4. CASE ScanFails
    BY <1>4, HistoryAssumption DEF ScanFails, ReadInv, Epoch, histVars
  <1>5. CASE Select
    <2>1. /\ pc = "probe" /\ pc' = "done" /\ ~CanWiden /\ choice' = Choose
          /\ UNCHANGED <<hist, keys, floor, hint, anchor, seen, opened, upper>>
      BY <1>5 DEF Select, histVars
    <2>2. CanWiden' = CanWiden /\ Choose' = Choose /\ opened' = Opens(seen, Tried)'
      BY <2>1 DEF CanWiden, top, Choose, Conflict, AnchorMissing, Latest, Leaders, Opens, Tried, ReadInv
    <2> QED BY <2>1, <2>2 DEF ReadInv, Landed
  <1>6. CASE UNCHANGED vars
    <2>1. UNCHANGED <<hist, pc, keys, floor, hint, anchor, seen, opened, upper, choice>>
      BY <1>6 DEF vars, histVars, readVars
    <2>2. CanWiden' = CanWiden /\ Choose' = Choose /\ Opens(seen, Tried)' = Opens(seen, Tried)
      BY <2>1 DEF CanWiden, top, Choose, Conflict, AnchorMissing, Latest, Leaders, Opens, Tried
    <2> QED BY <2>1, <2>2 DEF ReadInv, Landed
  <1> QED BY <1>1, <1>2, <1>3, <1>4, <1>5, <1>6, ScanInv, WidenInv DEF Next, Read, ReadStep

LEMMA StepAll == HistInv /\ ReadInv /\ [Next]_vars => HistInv' /\ ReadInv'
  <1> SUFFICES ASSUME HistInv, ReadInv, [Next]_vars PROVE HistInv'
    BY StepReadInv
  <1>1. HistNext \/ UNCHANGED histVars
    BY DEF Next, Read, ReadStep, Write, ReadAnchor, Scan, ScanFails, Widen, Select, vars
  <1>2. ASSUME UNCHANGED histVars PROVE HistInv'
    BY <1>2 DEF histVars, HistInv, HistTypeOK, Landed
  <1> QED BY <1>1, <1>2, StepHistInv

-----------------------------------------------------------------------------
(***************************************************************************)
(* The selection.                                                          *)
(***************************************************************************)

\* Some opened backup has no newer one.
LEMMA SomeNewest ==
    ASSUME HistInv, ReadInv, opened # {}
    PROVE  \E m \in opened : \A n \in opened : ~Newer(n.id, m.id)
  <1> DEFINE E == {m.id.epoch : m \in opened}
  <1>1. E \subseteq 0..LastEpoch /\ E # {} /\ LastEpoch \in Nat
    <2>1. \A m \in opened : m.id.epoch \in 0..LastEpoch
      BY OpenedType DEF Epoch
    <2> QED BY <2>1, HistoryAssumption
  <1>2. PICK e \in E : \A y \in E : y <= e
    BY <1>1, GreatestNat
  <1> DEFINE Q == {m.id.seq : m \in {n \in opened : n.id.epoch = e}}
  <1>3. Q \subseteq 0..LastSeq /\ Q # {} /\ LastSeq \in Nat
    <2>1. \A m \in opened : m.id.seq \in 0..LastSeq
      BY OpenedType, HistoryAssumption
    <2> QED BY <2>1, HistoryAssumption
  <1>4. PICK q \in Q : \A y \in Q : y <= q
    BY <1>3, GreatestNat
  <1>5. PICK m \in opened : m.id.epoch = e /\ m.id.seq = q
    OBVIOUS
  <1>6. ASSUME NEW n \in opened PROVE ~Newer(n.id, m.id)
    <2>1. n.id.epoch \in Nat /\ n.id.seq \in Nat /\ m.id.epoch \in Nat /\ m.id.seq \in Nat
      BY OpenedType
    <2>2. n.id.epoch <= m.id.epoch
      BY <1>2, <1>5
    <2>3. n.id.epoch = m.id.epoch => n.id.seq <= m.id.seq
      BY <1>4, <1>5
    <2> QED BY <2>1, <2>2, <2>3 DEF Newer
  <1> QED BY <1>6

\* Every backup without a newer one leads the list with its first landing.
LEMMA FirstLanding ==
    ASSUME HistInv, ReadInv, NEW m \in opened, \A n \in opened : ~Newer(n.id, m.id)
    PROVE  \E l \in Leaders : l.id = m.id
  <1> DEFINE L == {n.lgr : n \in {k \in opened : k.id = m.id}}
  <1>1. L \subseteq Nat /\ L # {}
    <2>1. \A n \in opened : n.lgr \in Nat
      BY OpenedType
    <2> QED BY <2>1
  <1>2. PICK x \in L : \A y \in L : x <= y
    BY <1>1, LeastNat
  <1>3. PICK l \in opened : l.id = m.id /\ l.lgr = x
    OBVIOUS
  <1>4. \A n \in opened : n.id = l.id => l.lgr <= n.lgr
    BY <1>2, <1>3
  <1> QED BY <1>3, <1>4 DEF Leaders

\* Two leaders are a conflict.
LEMMA OneLeader ==
    ASSUME HistInv, ReadInv, ~Conflict, NEW a \in Leaders, NEW b \in Leaders
    PROVE  a = b
  <1> SUFFICES ASSUME a # b PROVE FALSE
    OBVIOUS
  <1>1. Leaders \subseteq hist
    BY OpenedType DEF Leaders
  <1>2. IsFiniteSet(Leaders)
    BY <1>1, FS_Subset DEF HistInv
  <1>3. IsFiniteSet({a}) /\ Cardinality({a}) = 1
    BY FS_Singleton
  <1>4. Cardinality({a} \cup {b}) = 2
    BY <1>3, FS_AddElement
  <1>5. Cardinality({a} \cup {b}) <= Cardinality(Leaders) /\ Cardinality(Leaders) \in Nat
    BY <1>2, FS_Subset, FS_CardinalityType
  <1> QED BY <1>4, <1>5 DEF Conflict

\* Without a conflict Latest is the one leader, and everything opened is
\* older or the same backup.
LEMMA LatestIs ==
    ASSUME HistInv, ReadInv, opened # {}, ~Conflict
    PROVE  /\ Latest \in opened
           /\ \A n \in opened : n.id = Latest.id \/ Newer(Latest.id, n.id)
  <1>1. \E l \in Leaders : TRUE
    BY SomeNewest, FirstLanding
  <1>2. Latest \in Leaders
    BY <1>1 DEF Latest
  <1>3. Latest \in opened /\ \A n \in opened : ~Newer(n.id, Latest.id)
    BY <1>2 DEF Leaders
  <1>4. ASSUME NEW n \in opened, ~Newer(Latest.id, n.id) PROVE n.id = Latest.id
    <2>1. n.id.epoch = Latest.id.epoch /\ n.id.seq = Latest.id.seq
      BY <1>3, <1>4, OpenedType DEF Newer
    <2>2. \A k \in opened : ~Newer(k.id, n.id)
      BY <1>3, <2>1 DEF Newer
    <2>3. PICK l \in Leaders : l.id = n.id
      BY <2>2, FirstLanding
    <2> QED BY <1>2, <2>3, OneLeader
  <1> QED BY <1>3, <1>4

\* What the answer of choose says of the list.
LEMMA ChooseSays ==
    ASSUME HistInv, ReadInv
    PROVE  /\ Choose.kind = "backup" =>
                 opened # {} /\ ~Conflict /\ ~AnchorMissing /\ Choose.m = Latest
           /\ Choose.kind = "missing" => opened # {} /\ ~Conflict /\ AnchorMissing
  <1>1. opened = {} => ~Conflict
    BY FS_EmptySet DEF Conflict, Leaders
  <1> HIDE DEF Conflict
  <1>2. CASE opened = {}
    BY <1>1, <1>2 DEF Choose, Refuses
  <1>3. CASE opened # {} /\ Conflict
    BY <1>3 DEF Choose, Refuses
  <1>4. CASE opened # {} /\ ~Conflict /\ AnchorMissing
    BY <1>4 DEF Choose, Refuses
  <1>5. CASE opened # {} /\ ~Conflict /\ ~AnchorMissing
    BY <1>5 DEF Choose, Backs
  <1> QED BY <1>2, <1>3, <1>4, <1>5

-----------------------------------------------------------------------------
(***************************************************************************)
(* The properties.                                                         *)
(***************************************************************************)

\* A search whose top has been probed far enough has opened everything in
\* reach.  The backups form a chain of epochs; the lowest one that did not
\* open would have its predecessor open, and so lie within the probe of it.
LEMMA NoneMissed ==
    ASSUME HistInv, ReadInv, pc = "done", keys = Epoch, InReach(seen)
    PROVE  opened = Genuine(seen)
  <1>0. /\ opened = Opens(seen, Tried) /\ hint + Probe <= upper /\ ~CanWiden
        /\ floor \in Nat /\ hint \in Nat /\ floor <= hint /\ upper \in Nat
        /\ Probe \in Nat /\ LastEpoch \in Nat
    BY HistoryAssumption, DiscoverAssumption DEF ReadInv, Epoch
  <1>1. opened \subseteq Genuine(seen)
    BY <1>0 DEF Opens, Genuine
  <1>2. \A m \in Genuine(seen) : m.id.epoch \in Nat /\ m.id.epoch \in Epoch
    BY GenuineType, BackupType DEF Genuine, ReadInv
  <1>3. ASSUME NEW m \in Genuine(seen), floor < m.id.epoch + Probe, m.id.epoch <= upper
        PROVE  m \in opened
    <2>1. m.id.epoch \in Tried
      BY <1>0, <1>2, <1>3 DEF Tried, Epoch
    <2> QED BY <1>0, <1>2, <1>3, <2>1 DEF Opens, Genuine
  <1>4. CASE seen = opened
    BY <1>1, <1>4 DEF Genuine
  <1>5. CASE top + Probe <= upper
    <2> SUFFICES ASSUME Genuine(seen) \ opened # {} PROVE FALSE
      BY <1>1
    <2> DEFINE E == {m.id.epoch : m \in Genuine(seen) \ opened}
    <2>1. E \subseteq Nat /\ E # {}
      BY <1>2
    <2>2. PICK e \in E : \A y \in E : e <= y
      BY <2>1, LeastNat
    <2>3. PICK m \in Genuine(seen) \ opened : m.id.epoch = e
      OBVIOUS
    <2>4. \A n \in Genuine(seen) : n.id.epoch < m.id.epoch => n \in opened
      <3> SUFFICES ASSUME NEW n \in Genuine(seen) \ opened PROVE ~(n.id.epoch < m.id.epoch)
        OBVIOUS
      <3>1. m.id.epoch <= n.id.epoch
        BY <2>2, <2>3
      <3> QED BY <1>2, <3>1
    <2>5. floor < m.id.epoch + Probe
      BY DEF InReach
    <2>6. CASE m.id.epoch <= floor + Probe
      BY <1>0, <1>2, <1>3, <2>5, <2>6
    <2>7. CASE \E n \in Genuine(seen) : n.id.epoch < m.id.epoch /\ m.id.epoch <= n.id.epoch + Probe
      <3>1. PICK n \in opened : m.id.epoch <= n.id.epoch + Probe
        BY <2>4, <2>7
      <3>2. n.id.epoch <= top /\ top \in Nat /\ n.id.epoch \in Nat
        BY TopIs, OpenedType DEF Epoch
      <3> QED BY <1>0, <1>2, <1>3, <1>5, <2>5, <3>1, <3>2
    <2> QED BY <2>6, <2>7 DEF InReach
  <1>6. top \in Nat
    BY TopIs DEF Epoch
  <1> QED BY <1>0, <1>4, <1>5, <1>6 DEF CanWiden

LEMMA NewestFromInv == HistInv /\ ReadInv => NewestChosen
  <1> SUFFICES ASSUME HistInv, ReadInv, pc = "done", keys = Epoch, InReach(seen)
               PROVE  /\ opened = Genuine(seen)
                      /\ Chosen => \A n \in Genuine(seen) :
                                      n.id = choice.m.id \/ Newer(choice.m.id, n.id)
    BY DEF NewestChosen
  <1>1. opened = Genuine(seen)
    BY NoneMissed
  <1>2. choice = Choose
    BY DEF ReadInv
  <1> QED BY <1>1, <1>2, ChooseSays, LatestIs DEF Chosen

LEMMA AnchorFromInv == HistInv /\ ReadInv => AnchorHonoured
  <1> SUFFICES ASSUME HistInv, ReadInv PROVE AnchorHonoured
    OBVIOUS
  <1>1. NotOlderThanAnchor
    <2> SUFFICES ASSUME Chosen, anchor # None PROVE ~Newer(anchor, choice.m.id)
      BY DEF NotOlderThanAnchor
    <2>1. opened # {} /\ ~Conflict /\ ~AnchorMissing /\ choice.m = Latest
      BY ChooseSays DEF Chosen, ReadInv
    <2>2. Latest \in opened
      BY <2>1, LatestIs
    <2>3. Latest.id.epoch \in Nat /\ Latest.id.seq \in Nat /\ anchor.epoch \in Nat /\ anchor.seq \in Nat
      BY <2>2, OpenedType, BackupType DEF ReadInv
    <2> QED BY <2>1, <2>3 DEF AnchorMissing, Newer
  <1>2. AnchorFound
    <2> SUFFICES ASSUME pc = "done", seen = hist, choice.kind = "missing" PROVE FALSE
      BY DEF AnchorFound
    <2>1. opened # {} /\ ~Conflict /\ AnchorMissing
      BY ChooseSays DEF ReadInv
    <2>2. /\ anchor # None /\ Latest.id # anchor /\ ~Newer(Latest.id, anchor)
      BY <2>1 DEF AnchorMissing
    <2>3. /\ anchor \in Backup /\ anchor.epoch \in keys /\ anchor.epoch <= hint
          /\ \E m \in hist : m.id = anchor
      BY <2>2 DEF ReadInv, Landed
    <2>4. PICK m \in seen : m.id = anchor
      BY <2>3
    <2>5. /\ opened = Opens(seen, Tried) /\ hint + Probe <= upper /\ upper \in Nat
          /\ hint \in Nat /\ floor \in Nat /\ Probe \in Nat /\ LastEpoch \in Nat
      BY HistoryAssumption, DiscoverAssumption DEF ReadInv, Epoch
    <2>6. Latest \in opened /\ \A n \in opened : n.id = Latest.id \/ Newer(Latest.id, n.id)
      BY <2>1, LatestIs
    <2>7. anchor.epoch \in Nat /\ anchor.epoch <= LastEpoch
      BY <2>3, BackupType, HistoryAssumption DEF Epoch
    <2>8. CASE floor + 1 <= anchor.epoch + Probe
      <3>1. anchor.epoch \in Tried
        BY <2>3, <2>5, <2>7, <2>8 DEF Tried
      <3>2. m \in opened
        BY <2>3, <2>4, <2>5, <3>1, Markers DEF Opens
      <3> QED BY <2>2, <2>4, <2>6, <3>2
    <2>9. CASE ~(floor + 1 <= anchor.epoch + Probe)
      <3>1. Latest.id.epoch \in Tried /\ Latest.id.epoch \in Nat
        BY <2>5, <2>6, OpenedType DEF Opens
      <3>2. Latest.id.epoch > anchor.epoch
        BY <2>5, <2>7, <2>9, <3>1 DEF Tried
      <3> QED BY <2>2, <3>2 DEF Newer
    <2> QED BY <2>8, <2>9
  <1> QED BY <1>1, <1>2 DEF AnchorHonoured

LEMMA ToldFromInv == HistInv /\ ReadInv /\ Ordered => StaleKeyTold
  <1> SUFFICES ASSUME HistInv, ReadInv, Ordered, Chosen,
                      NEW n \in Genuine(seen), Newer(n.id, choice.m.id)
               PROVE  n \in RejectedAfter
    BY DEF StaleKeyTold
  <1>1. opened # {} /\ ~Conflict /\ choice.m = Latest
    BY ChooseSays DEF Chosen, ReadInv
  <1>2. Latest \in opened /\ \A k \in opened : k.id = Latest.id \/ Newer(Latest.id, k.id)
    BY <1>1, LatestIs
  <1>3. n \in hist /\ n \in seen /\ n.id # Junk /\ n.id \in Backup /\ n.lgr \in Nat
    BY GenuineType DEF Genuine, ReadInv
  <1>4. n.id.epoch \in Nat /\ n.id.seq \in Nat
    BY <1>3, BackupType
  <1>5. /\ Latest \in hist /\ Latest.id # Junk /\ Latest.lgr \in Nat
        /\ Latest.id.epoch \in Nat /\ Latest.id.seq \in Nat
    BY <1>2, OpenedType
  <1>6. n.id # Latest.id /\ ~Newer(Latest.id, n.id)
    BY <1>1, <1>4, <1>5 DEF Newer
  <1>7. n \notin opened
    BY <1>2, <1>6
  <1>8. ~(n.lgr = Latest.lgr) /\ ~(n.lgr < Latest.lgr)
    BY <1>1, <1>3, <1>5, <1>6 DEF Ordered, Sorted
  <1> QED BY <1>1, <1>3, <1>5, <1>7, <1>8 DEF RejectedAfter

-----------------------------------------------------------------------------
(***************************************************************************)
(* The theorems.                                                           *)
(***************************************************************************)

LEMMA SpecInv == Spec => [](HistInv /\ ReadInv)
  <1>1. Init => HistInv /\ ReadInv
    BY InitHistInv, InitReadInv DEF Init
  <1> QED BY <1>1, StepAll, PTL DEF Spec

LEMMA HistOrIdle == [Next]_vars => HistNext \/ UNCHANGED histVars
  BY DEF Next, Read, ReadStep, Write, ReadAnchor, Scan, ScanFails, Widen, Select, vars

LEMMA SpecGapFree ==
    ASSUME "prune" \notin Events
    PROVE  Spec => []GapFree
  <1>1. Init => GapFree
    BY InitGapFree DEF Init
  <1>2. HistInv /\ GapFree /\ [Next]_vars => GapFree'
    <2>1. UNCHANGED histVars /\ GapFree => GapFree'
      BY DEF histVars, GapFree, OnTop
    <2> QED BY <2>1, HistOrIdle, StepGapFree
  <1> QED BY <1>1, <1>2, SpecInv, PTL DEF Spec

LEMMA SpecOrdered ==
    ASSUME OneWriter
    PROVE  Spec => []Ordered
  <1>1. Init => Ordered
    BY InitOrdered DEF Init
  <1>2. HistInv /\ GapFree /\ Ordered /\ [Next]_vars => Ordered'
    <2>1. UNCHANGED histVars /\ Ordered => Ordered'
      BY DEF histVars, Ordered, EpochsKnown, Sorted, Ahead, Settled, Landed
    <2> QED BY <2>1, HistOrIdle, StepOrdered
  <1>3. Spec => []GapFree
    BY SpecGapFree DEF OneWriter
  <1> QED BY <1>1, <1>2, <1>3, SpecInv, PTL DEF Spec

\* Hosts, history and reader keep their types: no epoch and no seq passes its
\* last value (backup.go, NextSeq and ErrLastSeq; discover.go, Run).
THEOREM TypeCorrect == Spec => []TypeOK
  <1>1. HistInv /\ ReadInv => TypeOK
    <2> SUFFICES ASSUME HistInv, ReadInv PROVE TypeOK
      OBVIOUS
    <2>1. opened \subseteq seen
      BY DEF ReadInv, Opens
    <2> QED BY <2>1 DEF HistInv, ReadInv, TypeOK
  <1> QED BY <1>1, SpecInv, PTL

\* A reader with the recovery words finds the newest backup there is or says
\* that two share the place (discover.go, Run, probeOrder and choose), for
\* every probe distance, any number of hosts and servers that dropped ledgers.
THEOREM NewestIsChosen == Spec => []NewestChosen
  BY NewestFromInv, SpecInv, PTL

\* The verified anchor is honoured (discover.go, Run and AnchorMissing): no
\* older backup is taken for it, and it is not called missing while its
\* manifest is there, whoever writes between the two reads.
THEOREM AnchorIsHonoured == Spec => []AnchorHonoured
  BY AnchorFromInv, SpecInv, PTL

\* With one writer and whole histories, late landings included, a reader
\* whose key file is out of date is told so (discover.go, Run: "One that
\* landed after it may be the newest backup, so say so").
THEOREM StaleKeyIsTold == ASSUME OneWriter PROVE Spec => []StaleKeyTold
  BY ToldFromInv, SpecInv, SpecOrdered, PTL

\* With one writer and whole histories nothing older lands on top of what has
\* landed (backup.go, NextSeq and send), over any number of rotations,
\* interruptions and re-runs, and whatever an interrupted run left in flight.
THEOREM BackupsNeverOlder == ASSUME OneWriter PROVE Spec => NeverOlder
  <1> DEFINE A == \A m \in hist' \ hist, n \in hist :
                     (m.id # Junk /\ n.id # Junk) => ~Newer(n.id, m.id)
  <1>1. HistInv /\ Ordered /\ [Next]_vars => [A]_histVars
    BY HistOrIdle, StepNeverOlder
  <1> QED BY <1>1, SpecInv, SpecOrdered, PTL DEF Spec, NeverOlder

\* With one writer and whole histories a finished backup stands: nothing an
\* interrupted run sent lands after it or moves the DID entry off it
\* (cmd_backup.go, doSubmit; backup.go, send).
THEOREM FinishedStands == ASSUME OneWriter PROVE Spec => []DoneStands
  <1>1. Ordered => DoneStands
    BY DEF Ordered, Settled, Ahead, DoneStands, Landed
  <1> QED BY <1>1, SpecOrdered, PTL
=============================================================================
