-------------------------------- MODULE Send --------------------------------
(***************************************************************************)
(* Submitter.send: sign, submit, poll for validation, record, with up to   *)
(* MaxAttempts attempts.  Every RPC is a step of its own; the ledger moves *)
(* between any two of them.  A crash may end the process anywhere and the  *)
(* operator then calls again.                                              *)
(*                                                                         *)
(* A transaction is its account sequence, its LastLedgerSequence and the   *)
(* call whose payload it carries: ed25519 signing is deterministic, so     *)
(* these three fix the hash.                                               *)
(***************************************************************************)
EXTENDS Naturals

CONSTANTS
    MaxAttempts,  \* attempts per call (3)
    MaxPolls,     \* polls per attempt (45)
    Window,       \* LastLedgerSequence distance (20)
    MaxLedger,    \* bound: last ledger the network closes
    MaxCalls      \* bound: calls of send

ASSUME SendAssumption ==
    /\ MaxAttempts \in Nat \ {0}
    /\ MaxPolls \in Nat \ {0}
    /\ Window \in Nat
    /\ MaxLedger \in Nat
    /\ MaxCalls \in Nat

VARIABLES
    (* the XRP Ledger, as the RPC server shows it *)
    ledger,    \* index of the last validated ledger
    acctSeq,   \* the writer account's next sequence in that ledger
    pool,      \* transactions some server took and may still put in a ledger
    chain,     \* transactions validated with tesSUCCESS
    failed,    \* transactions validated with another (tec) result
    (* the process *)
    pc,        \* the RPC the loop is about to make
    call,      \* number of the call, which stands for its payload
    attempt,   \* loop variable `attempt'
    polls,     \* loop variable `i'
    st,        \* ValidatedLedger read at the start of the attempt
    cur,       \* transaction of the last attempt
    dump,      \* transactions recorded in the dump file
    (* observation *)
    signed,    \* transactions signed with a sequence the account has not used
    ret        \* how the last call ended

netVars  == <<ledger, acctSeq, pool, chain, failed>>
procVars == <<pc, call, attempt, polls, st, cur, dump, signed, ret>>
vars     == <<netVars, procVars>>

Tx   == [call : 1..MaxCalls, seq : 1..(MaxLedger + 1), lls : 0..(MaxLedger + Window)]
NoTx == [call |-> 0, seq |-> 0, lls |-> 0]

TypeOK ==
    /\ ledger \in 0..MaxLedger
    /\ acctSeq \in 1..(MaxLedger + 1)
    /\ pool \subseteq Tx /\ chain \subseteq Tx /\ failed \subseteq Tx
    /\ pc \in {"idle", "serverInfo", "accountInfo", "submit", "tx", "expiry"}
    /\ call \in 0..MaxCalls
    /\ attempt \in 0..(MaxAttempts - 1)
    /\ polls \in 0..(MaxPolls - 1)
    /\ st \in 0..MaxLedger
    /\ cur \in Tx \cup {NoTx}
    /\ dump \subseteq Tx /\ signed \subseteq Tx
    /\ ret \in {"none", "ok", "error", "exhausted", "crash"}

Init ==
    /\ ledger = 0 /\ acctSeq = 1
    /\ pool = {} /\ chain = {} /\ failed = {}
    /\ pc = "idle" /\ call = 0
    /\ attempt = 0 /\ polls = 0 /\ st = 0
    /\ cur = NoTx
    /\ dump = {} /\ signed = {}
    /\ ret = "none"

-----------------------------------------------------------------------------
(***************************************************************************)
(* The network: consensus closes ledgers.  A transaction applies when its  *)
(* sequence is the account's and its LastLedgerSequence has not passed.    *)
(***************************************************************************)

UseSequence ==
    /\ acctSeq' = acctSeq + 1
    /\ pool' = {t \in pool : t.seq > acctSeq /\ t.lls > ledger'}
    /\ signed' = {t \in signed : t.seq > acctSeq}

CloseLedger ==
    /\ ledger < MaxLedger
    /\ ledger' = ledger + 1
    /\ UNCHANGED <<pc, call, attempt, polls, st, cur, dump, ret>>
    /\ \/ /\ pool' = {t \in pool : t.lls > ledger'}
          /\ UNCHANGED <<acctSeq, chain, failed, signed>>
       \/ /\ \E t \in pool :
                /\ t.seq = acctSeq
                /\ ledger' <= t.lls
                /\ \/ chain' = chain \cup {t} /\ UNCHANGED failed
                   \/ failed' = failed \cup {t} /\ UNCHANGED chain
          /\ UseSequence
       \/ /\ UNCHANGED <<chain, failed>>  \* another transaction of the account
          /\ UseSequence

-----------------------------------------------------------------------------
(***************************************************************************)
(* The loop.                                                               *)
(***************************************************************************)

Return(r) ==
    /\ pc' = "idle"
    /\ ret' = r
    /\ cur' = NoTx
    /\ attempt' = 0 /\ polls' = 0 /\ st' = 0

\* `continue', `break' and the end of the poll loop all lead here.
NextAttempt ==
    IF attempt + 1 < MaxAttempts
    THEN /\ attempt' = attempt + 1
         /\ pc' = "serverInfo"
         /\ polls' = 0 /\ st' = 0
         /\ UNCHANGED <<cur, ret>>
    ELSE Return("exhausted")

Call ==
    /\ pc = "idle"
    /\ call < MaxCalls
    /\ call' = call + 1
    /\ pc' = "serverInfo"
    /\ ret' = "none"
    /\ UNCHANGED <<netVars, attempt, polls, st, cur, dump, signed>>

ServerInfo ==
    /\ pc = "serverInfo"
    /\ UNCHANGED <<netVars, call, dump, signed>>
    /\ \/ /\ st' = ledger
          /\ pc' = "accountInfo"
          /\ UNCHANGED <<attempt, polls, cur, ret>>
       \/ Return("error")

\* Mutant of AccountInfo: the sequence of the open ledger, which counts
\* transactions that are only waiting.
AccountInfoOpenLedger ==
    /\ pc = "accountInfo"
    /\ UNCHANGED <<netVars, call, dump>>
    /\ \/ /\ cur' = [call |-> call, lls |-> st + Window,
                     seq |-> IF \E t \in pool : t.seq = acctSeq
                             THEN acctSeq + 1 ELSE acctSeq]
          /\ signed' = signed \cup {cur'}
          /\ pc' = "submit"
          /\ UNCHANGED <<attempt, polls, st, ret>>
       \/ Return("error") /\ UNCHANGED signed

\* account_info is asked for the validated ledger, so the sequence is the
\* one the network will accept next.  No account, a fee above the cap or a
\* balance below the reserve end the call.
AccountInfo ==
    /\ pc = "accountInfo"
    /\ UNCHANGED <<netVars, call, dump>>
    /\ \/ /\ cur' = [call |-> call, seq |-> acctSeq, lls |-> st + Window]
          /\ signed' = signed \cup {cur'}
          /\ pc' = "submit"
          /\ UNCHANGED <<attempt, polls, st, ret>>
       \/ Return("error") /\ UNCHANGED signed

\* Whatever the server answers, and also when no answer arrives, the blob
\* may or may not have reached the network: a queued transaction can be
\* dropped, a terPRE_SEQ one is held, a lost reply says nothing.
Submit ==
    /\ pc = "submit"
    /\ pool' \in {pool, pool \cup {cur}}
    /\ UNCHANGED <<ledger, acctSeq, chain, failed, call, dump, signed>>
    /\ \/ /\ pc' = "tx"                       \* tesSUCCESS, terQUEUED
          /\ UNCHANGED <<attempt, polls, st, cur, ret>>
       \/ NextAttempt                         \* tefPAST_SEQ, terPRE_SEQ
       \/ Return("error")                     \* any other code, or no reply

\* Tx(hash).  An RPC error and "not validated yet" are the same to the loop.
PollTx ==
    /\ pc = "tx"
    /\ UNCHANGED <<netVars, call, signed>>
    /\ \/ /\ pc' = "expiry"
          /\ UNCHANGED <<attempt, polls, st, cur, dump, ret>>
       \/ /\ cur \in failed
          /\ Return("error")
          /\ UNCHANGED dump
       \/ /\ cur \in chain
          /\ dump' = dump \cup {cur}
          /\ Return("ok")
       \/ /\ cur \in chain                    \* the save fails half way
          /\ dump' = {}
          /\ Return("error")

\* The poll's ServerInfo shows a ledger past LastLedgerSequence.
Expired ==
    /\ pc = "expiry"
    /\ ledger > cur.lls
    /\ NextAttempt
    /\ UNCHANGED <<netVars, call, dump, signed>>

\* Mutant of PollAgain: the poll counter is not advanced.
PollAgainForever ==
    /\ pc = "expiry"
    /\ UNCHANGED <<netVars, call, dump, signed>>
    /\ pc' = "tx"
    /\ UNCHANGED <<attempt, polls, st, cur, ret>>

\* It does not, or it fails.
PollAgain ==
    /\ pc = "expiry"
    /\ UNCHANGED <<netVars, call, dump, signed>>
    /\ \/ /\ polls + 1 < MaxPolls
          /\ polls' = polls + 1
          /\ pc' = "tx"
          /\ UNCHANGED <<attempt, st, cur, ret>>
       \/ /\ polls + 1 = MaxPolls
          /\ NextAttempt

Crash ==
    /\ pc # "idle"
    /\ Return("crash")
    /\ UNCHANGED <<netVars, call, dump, signed>>

Step == ServerInfo \/ AccountInfo \/ Submit \/ PollTx \/ Expired \/ PollAgain

Next == Call \/ Step \/ Crash \/ CloseLedger

Spec     == Init /\ [][Next]_vars
FairSpec == Spec /\ WF_vars(Step)

-----------------------------------------------------------------------------
(***************************************************************************)
(* Properties.                                                             *)
(***************************************************************************)

D == INSTANCE Delivery WITH
        chain  <- chain,
        flight <- {{t} : t \in signed},
        cur    <- IF cur = NoTx THEN {} ELSE {cur},
        att    <- IF pc \in {"submit", "tx", "expiry"} THEN attempt + 1 ELSE attempt,
        dump   <- dump

\* send keeps the promise of module Delivery (backup.go, send): it records
\* and returns only what it saw land, never more than one of its
\* transmissions can land on one account sequence, and a call uses at most
\* MaxAttempts transmissions, whatever is lost, delayed or cut short.
Delivers == D!DeliveryInit /\ [][D!DeliveryNext({{t} : t \in Tx})]_(D!deliveryVars)

\* A call of send always returns (or the process dies) although every reply
\* may be lost and the ledger may stop closing: both loops are bounded.
Terminates == (pc # "idle") ~> (pc = "idle")
=============================================================================
