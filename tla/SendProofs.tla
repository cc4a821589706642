----------------------------- MODULE SendProofs -----------------------------
(***************************************************************************)
(* Proofs about module Send, for every number of attempts, polls, ledgers  *)
(* and calls: the types, and that the polling loop of Submitter.send       *)
(* implements module Delivery.                                             *)
(*                                                                         *)
(* The step of the refinement that is not a matter of renaming is the one  *)
(* where a ledger closes.  The network draws from its pool; Delivery draws *)
(* from what was signed with the account's current sequence.  Competing    *)
(* relates the two: what waits in the pool with the current sequence was   *)
(* signed with it, and so was the blob the loop is about to submit, unless *)
(* the sequence moved on since and the blob is dead before it is sent.     *)
(***************************************************************************)
EXTENDS Send, TLAPS

\* The transmissions alive all carry the sequence the account uses next.
Competing ==
    /\ \A t \in signed : t.seq = acctSeq
    /\ \A t \in pool : t.seq <= acctSeq /\ (t.seq = acctSeq => t \in signed)
    /\ pc = "submit" => cur.seq <= acctSeq /\ (cur.seq = acctSeq => cur \in signed)

\* What the loop has in hand at each of its RPCs.
InHand ==
    /\ acctSeq <= ledger + 1
    /\ pc # "idle" => call >= 1
    /\ pc \in {"submit", "tx", "expiry"} => cur \in Tx
    /\ pc = "idle" => attempt = 0 /\ cur = NoTx

IInv == TypeOK /\ InHand /\ Competing

-----------------------------------------------------------------------------
(***************************************************************************)
(* The invariant.                                                          *)
(***************************************************************************)

\* No transaction of the writer is the placeholder of an idle loop.
LEMMA NoTxIsNone == NoTx \notin Tx
  BY SendAssumption DEF NoTx, Tx

\* The blob AccountInfo signs is a transaction of the call (backup.go, send).
LEMMA SignedIsTx ==
    ASSUME IInv, pc = "accountInfo"
    PROVE  [call |-> call, seq |-> acctSeq, lls |-> st + Window] \in Tx
  BY SendAssumption DEF IInv, TypeOK, InHand, Tx

LEMMA InitIInv == Init => IInv
  BY SendAssumption DEF Init, IInv, TypeOK, InHand, Competing

\* A ledger that uses the account's sequence up leaves nothing alive: every
\* blob signed with it or waiting with it is dead (backup.go, send: the next
\* attempt reads the sequence again).
LEMMA UseSequenceEmpties ==
    ASSUME IInv, UseSequence
    PROVE  signed' = {} /\ pool' = {}
  <1>1. \A t \in Tx : t.seq \in Nat
    BY SendAssumption DEF Tx
  <1>2. acctSeq \in Nat /\ signed \subseteq Tx /\ pool \subseteq Tx
    BY SendAssumption DEF IInv, TypeOK
  <1>3. \A t \in signed : ~(t.seq > acctSeq)
    BY <1>1, <1>2 DEF IInv, Competing
  <1>4. \A t \in pool : ~(t.seq > acctSeq)
    BY <1>1, <1>2 DEF IInv, Competing
  <1> QED BY <1>3, <1>4 DEF UseSequence

LEMMA CloseLedgerIInv == IInv /\ CloseLedger => IInv'
  <1> SUFFICES ASSUME IInv, CloseLedger PROVE IInv'
    OBVIOUS
  <1> USE SendAssumption
  <1>1. CASE /\ pool' = {t \in pool : t.lls > ledger'}
             /\ UNCHANGED <<acctSeq, chain, failed, signed>>
    BY <1>1 DEF IInv, TypeOK, InHand, Competing, CloseLedger
  <1>2. CASE UseSequence
    <2>1. signed' = {} /\ pool' = {}
      BY <1>2, UseSequenceEmpties
    <2>2. TypeOK'
      BY <1>2, <2>1 DEF IInv, TypeOK, InHand, CloseLedger, UseSequence
    <2>3. InHand'
      BY <1>2, <2>1 DEF IInv, TypeOK, InHand, CloseLedger, UseSequence
    <2>4. pc = "submit" => cur.seq \in Nat
      BY DEF IInv, InHand, Tx
    <2>5. Competing'
      BY <1>2, <2>1, <2>4 DEF IInv, TypeOK, Competing, CloseLedger, UseSequence
    <2> QED BY <2>2, <2>3, <2>5 DEF IInv
  <1> QED BY <1>1, <1>2 DEF CloseLedger

\* Returning leaves the account, the pool and what was signed alone.
LEMMA ReturnIInv ==
    ASSUME IInv, NEW r \in {"ok", "error", "exhausted", "crash"}, Return(r),
           UNCHANGED <<ledger, acctSeq, chain, failed, call, signed>>,
           dump' \subseteq Tx, pool' \subseteq Tx,
           \A t \in pool' : t.seq <= acctSeq /\ (t.seq = acctSeq => t \in signed)
    PROVE  IInv'
  BY SendAssumption DEF IInv, TypeOK, InHand, Competing, Return

LEMMA NextAttemptIInv ==
    ASSUME IInv, pc # "idle", NextAttempt,
           UNCHANGED <<ledger, acctSeq, chain, failed, call, dump, signed>>,
           pool' \subseteq Tx,
           \A t \in pool' : t.seq <= acctSeq /\ (t.seq = acctSeq => t \in signed)
    PROVE  IInv'
  <1>1. CASE attempt + 1 < MaxAttempts
    BY <1>1, SendAssumption DEF IInv, TypeOK, InHand, Competing, NextAttempt
  <1>2. CASE ~(attempt + 1 < MaxAttempts)
    BY <1>2, ReturnIInv DEF NextAttempt, IInv, TypeOK
  <1> QED BY <1>1, <1>2

LEMMA StepIInv == IInv /\ [Next]_vars => IInv'
  <1> SUFFICES ASSUME IInv, [Next]_vars PROVE IInv'
    OBVIOUS
  <1> USE SendAssumption
  <1>0. pool \subseteq Tx /\ dump \subseteq Tx /\ chain \subseteq Tx
        /\ \A t \in pool : t.seq <= acctSeq /\ (t.seq = acctSeq => t \in signed)
    BY DEF IInv, TypeOK, Competing
  <1>1. CASE Call
    BY <1>1 DEF IInv, TypeOK, InHand, Competing, Call, netVars
  <1>2. CASE ServerInfo
    <2>1. CASE Return("error")
      BY <1>0, <1>2, <2>1, ReturnIInv DEF ServerInfo, netVars
    <2>2. CASE st' = ledger /\ pc' = "accountInfo" /\ UNCHANGED <<attempt, polls, cur, ret>>
      BY <1>2, <2>2 DEF IInv, TypeOK, InHand, Competing, ServerInfo, netVars
    <2> QED BY <1>2, <2>1, <2>2 DEF ServerInfo
  <1>3. CASE AccountInfo
    <2>1. CASE Return("error") /\ UNCHANGED signed
      BY <1>0, <1>3, <2>1, ReturnIInv DEF AccountInfo, netVars
    <2>2. CASE ~(Return("error") /\ UNCHANGED signed)
      <3>1. cur' \in Tx /\ cur'.seq = acctSeq /\ pc' = "submit"
        BY <1>3, <2>2, SignedIsTx DEF AccountInfo
      <3>2. signed' = signed \cup {cur'}
        BY <1>3, <2>2 DEF AccountInfo
      <3> QED
        BY <1>3, <2>2, <3>1, <3>2
           DEF IInv, TypeOK, InHand, Competing, AccountInfo, netVars
    <2> QED BY <2>1, <2>2
  <1>4. CASE Submit
    <2>1. pool' \subseteq Tx
          /\ \A t \in pool' : t.seq <= acctSeq /\ (t.seq = acctSeq => t \in signed)
      BY <1>0, <1>4 DEF IInv, InHand, Competing, Submit
    <2>2. CASE NextAttempt
      BY <1>4, <2>1, <2>2, NextAttemptIInv DEF Submit
    <2>3. CASE Return("error")
      BY <1>0, <1>4, <2>1, <2>3, ReturnIInv DEF Submit
    <2>4. CASE pc' = "tx" /\ UNCHANGED <<attempt, polls, st, cur, ret>>
      BY <1>4, <2>1, <2>4 DEF IInv, TypeOK, InHand, Competing, Submit
    <2> QED BY <1>4, <2>2, <2>3, <2>4 DEF Submit
  <1>5. CASE PollTx
    <2>1. dump' \subseteq Tx
      BY <1>0, <1>5 DEF PollTx
    <2>2. CASE Return("error") \/ Return("ok")
      BY <1>0, <1>5, <2>1, <2>2, ReturnIInv DEF PollTx, netVars
    <2>3. CASE pc' = "expiry" /\ UNCHANGED <<attempt, polls, st, cur, dump, ret>>
      BY <1>5, <2>3 DEF IInv, TypeOK, InHand, Competing, PollTx, netVars
    <2> QED BY <1>5, <2>2, <2>3 DEF PollTx
  <1>6. CASE Expired
    BY <1>0, <1>6, NextAttemptIInv DEF Expired, netVars
  <1>7. CASE PollAgain
    <2>1. CASE NextAttempt
      BY <1>0, <1>7, <2>1, NextAttemptIInv DEF PollAgain, netVars
    <2>2. CASE ~NextAttempt
      BY <1>7, <2>2 DEF IInv, TypeOK, InHand, Competing, PollAgain, netVars
    <2> QED BY <2>1, <2>2
  <1>8. CASE Crash
    BY <1>0, <1>8, ReturnIInv DEF Crash, netVars
  <1>9. CASE CloseLedger
    BY <1>9, CloseLedgerIInv
  <1>10. CASE UNCHANGED vars
    BY <1>10 DEF IInv, TypeOK, InHand, Competing, vars, netVars, procVars
  <1> QED
    BY <1>1, <1>2, <1>3, <1>4, <1>5, <1>6, <1>7, <1>8, <1>9, <1>10 DEF Next, Step

LEMMA SpecIInv == Spec => []IInv
  BY InitIInv, StepIInv, PTL DEF Spec

\* The loop of send and the ledger keep their types (backup.go, send), for
\* every attempt, poll and call.
THEOREM TypeCorrect == Spec => []TypeOK
  <1>1. IInv => TypeOK
    BY DEF IInv
  <1> QED BY <1>1, SpecIInv, PTL

-----------------------------------------------------------------------------
(***************************************************************************)
(* The refinement, one lemma per kind of step.                             *)
(***************************************************************************)

Groups == {{t} : t \in Tx}

\* Delivery's view of the steps that only move the loop along.
LEMMA LoopStutters ==
    ASSUME UNCHANGED <<chain, signed, cur, dump>>,
           (IF pc \in {"submit", "tx", "expiry"} THEN attempt + 1 ELSE attempt)'
             = IF pc \in {"submit", "tx", "expiry"} THEN attempt + 1 ELSE attempt
    PROVE  UNCHANGED D!deliveryVars
  BY DEF D!deliveryVars

\* An attempt that signs is a Transmit: the attempts of a call are counted
\* (backup.go, send: `for attempt := 0; attempt < maxAttempts').
LEMMA SignTransmits ==
    ASSUME IInv, AccountInfo, ~Return("error")
    PROVE  D!DeliveryNext(Groups)
  <1>1. PICK t \in Tx : t = [call |-> call, seq |-> acctSeq, lls |-> st + Window]
    BY SignedIsTx DEF AccountInfo
  <1>2. /\ pc = "accountInfo" /\ pc' = "submit"
        /\ cur' = t /\ signed' = signed \cup {t}
        /\ UNCHANGED <<chain, dump, attempt>>
    BY <1>1 DEF AccountInfo, netVars
  <1>3. attempt \in Nat /\ attempt < MaxAttempts
    BY SendAssumption DEF IInv, TypeOK
  <1>4. D!Transmit({t})
    BY <1>2, <1>3, NoTxIsNone DEF D!Transmit
  <1> QED BY <1>4 DEF D!DeliveryNext, Groups

\* Every way out of the loop but a validated one is a GiveUp.
LEMMA ReturnGivesUp ==
    ASSUME NEW r, Return(r), UNCHANGED <<chain, signed, dump>>
    PROVE  D!DeliveryNext(Groups)
  <1>1. D!GiveUp
    BY DEF Return, D!GiveUp
  <1> QED BY <1>1 DEF D!DeliveryNext

\* A retry keeps the attempt it replaces in flight and counts it.
LEMMA RetryStutters ==
    ASSUME IInv, NextAttempt, pc \in {"submit", "tx", "expiry"},
           UNCHANGED <<chain, signed, dump>>
    PROVE  D!DeliveryNext(Groups) \/ UNCHANGED D!deliveryVars
  <1>1. CASE attempt + 1 < MaxAttempts
    BY <1>1, LoopStutters DEF NextAttempt
  <1>2. CASE ~(attempt + 1 < MaxAttempts)
    BY <1>2, ReturnGivesUp DEF NextAttempt
  <1> QED BY <1>1, <1>2

\* Only a transaction seen validated with tesSUCCESS is recorded, added to
\* what the dump holds or lost with it when the save is torn (backup.go,
\* record, and dump.Save).
LEMMA PollConfirms ==
    ASSUME IInv, PollTx
    PROVE  D!DeliveryNext(Groups) \/ UNCHANGED D!deliveryVars
  <1>1. UNCHANGED <<chain, signed>> /\ pc = "tx"
    BY DEF PollTx, netVars
  <1>2. CASE pc' = "expiry" /\ UNCHANGED <<attempt, polls, st, cur, dump, ret>>
    BY <1>1, <1>2, LoopStutters
  <1>3. CASE Return("error") /\ UNCHANGED dump
    BY <1>1, <1>3, ReturnGivesUp
  <1>4. cur # NoTx
    BY <1>1, NoTxIsNone DEF IInv, InHand
  <1>5. CASE cur \in chain /\ dump' = dump \cup {cur} /\ Return("ok")
    <2>1. D!Confirm
      BY <1>1, <1>4, <1>5 DEF D!Confirm, Return
    <2> QED BY <2>1 DEF D!DeliveryNext
  <1>6. CASE cur \in chain /\ dump' = {} /\ Return("error")
    <2>1. D!Tear
      BY <1>1, <1>4, <1>6 DEF D!Tear, Return
    <2> QED BY <2>1 DEF D!DeliveryNext
  <1> QED BY <1>2, <1>3, <1>5, <1>6 DEF PollTx

\* A closing ledger takes at most one of the competing transmissions, and
\* the others die with the sequence number.
LEMMA CloseLands ==
    ASSUME IInv, CloseLedger
    PROVE  D!DeliveryNext(Groups) \/ UNCHANGED D!deliveryVars
  <1>1. UNCHANGED <<pc, attempt, cur, dump>>
    BY DEF CloseLedger
  <1>2. CASE UNCHANGED <<acctSeq, chain, failed, signed>>
    BY <1>1, <1>2, LoopStutters
  <1>3. ASSUME UseSequence, UNCHANGED chain
        PROVE  D!DeliveryNext(Groups) \/ UNCHANGED D!deliveryVars
    <2>1. signed' = {}
      BY <1>3, UseSequenceEmpties
    <2>2. CASE signed = {}
      BY <1>1, <1>3, <2>1, <2>2, LoopStutters
    <2>3. CASE signed # {}
      <3>1. D!Void
        BY <1>1, <1>3, <2>1, <2>3 DEF D!Void
      <3> QED BY <3>1 DEF D!DeliveryNext
    <2> QED BY <2>2, <2>3
  <1>4. ASSUME UseSequence, NEW t \in pool, t.seq = acctSeq, chain' = chain \cup {t}
        PROVE  D!DeliveryNext(Groups)
    <2>1. signed' = {}
      BY <1>4, UseSequenceEmpties
    <2>2. t \in signed /\ t \in Tx
      BY <1>4 DEF IInv, TypeOK, Competing
    <2>3. D!Land({t})
      BY <1>1, <1>4, <2>1, <2>2 DEF D!Land
    <2> QED BY <2>2, <2>3 DEF D!DeliveryNext, Groups
  <1> QED BY <1>2, <1>3, <1>4 DEF CloseLedger

LEMMA StepDelivers ==
    ASSUME IInv, [Next]_vars
    PROVE  D!DeliveryNext(Groups) \/ UNCHANGED D!deliveryVars
  <1>1. CASE Call
    BY <1>1, LoopStutters DEF Call, netVars
  <1>2. CASE ServerInfo
    <2>1. UNCHANGED <<chain, signed, dump>> /\ pc = "serverInfo"
      BY <1>2 DEF ServerInfo, netVars
    <2>2. CASE Return("error")
      BY <2>1, <2>2, ReturnGivesUp
    <2>3. CASE ~Return("error")
      BY <1>2, <2>1, <2>3, LoopStutters DEF ServerInfo
    <2> QED BY <2>2, <2>3
  <1>3. CASE AccountInfo
    <2>1. CASE Return("error")
      <3>1. pc' = "idle"
        BY <2>1 DEF Return
      <3>2. UNCHANGED <<chain, signed, dump>>
        BY <1>3, <3>1 DEF AccountInfo, netVars
      <3> QED BY <2>1, <3>2, ReturnGivesUp
    <2> QED BY <1>3, <2>1, SignTransmits
  <1>4. CASE Submit
    <2>1. UNCHANGED <<chain, signed, dump>> /\ pc = "submit"
      BY <1>4 DEF Submit
    <2>2. CASE NextAttempt
      BY <2>1, <2>2, RetryStutters
    <2>3. CASE Return("error")
      BY <2>1, <2>3, ReturnGivesUp
    <2>4. CASE pc' = "tx" /\ UNCHANGED <<attempt, polls, st, cur, ret>>
      BY <2>1, <2>4, LoopStutters
    <2> QED BY <1>4, <2>2, <2>3, <2>4 DEF Submit
  <1>5. CASE PollTx
    BY <1>5, PollConfirms
  <1>6. CASE Expired
    BY <1>6, RetryStutters DEF Expired, netVars
  <1>7. CASE PollAgain
    <2>1. UNCHANGED <<chain, signed, dump>> /\ pc = "expiry"
      BY <1>7 DEF PollAgain, netVars
    <2>2. CASE NextAttempt
      BY <2>1, <2>2, RetryStutters
    <2>3. CASE ~NextAttempt
      BY <1>7, <2>1, <2>3, LoopStutters DEF PollAgain
    <2> QED BY <2>2, <2>3
  <1>8. CASE Crash
    BY <1>8, ReturnGivesUp DEF Crash, netVars
  <1>9. CASE CloseLedger
    BY <1>9, CloseLands
  <1>10. CASE UNCHANGED vars
    BY <1>10, LoopStutters DEF vars, netVars, procVars
  <1> QED
    BY <1>1, <1>2, <1>3, <1>4, <1>5, <1>6, <1>7, <1>8, <1>9, <1>10 DEF Next, Step

LEMMA InitDelivers == Init => D!DeliveryInit
  BY DEF Init, D!DeliveryInit

\* Submitter.send keeps the promise the backup is built on (backup.go, send):
\* with replies lost, ledgers closing between any two RPCs, attempts repeated
\* and the process killed anywhere, each of its steps is a step of Delivery,
\* so at most one of its transmissions lands per account sequence, at most
\* MaxAttempts are made per call, and what it records has landed.
THEOREM SendDelivers == Spec => Delivers
  <1>1. IInv /\ [Next]_vars => [D!DeliveryNext(Groups)]_(D!deliveryVars)
    BY StepDelivers
  <1> QED BY <1>1, InitDelivers, SpecIInv, PTL DEF Spec, Delivers, Groups
=============================================================================
