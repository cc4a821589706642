------------------------------ MODULE Delivery ------------------------------
(***************************************************************************)
(* What one call of Submitter.send or Submitter.sendBatch promises.        *)
(*                                                                         *)
(* A transmission is a set of transactions that reach the ledger together  *)
(* or not at all: one transaction for send, the inner transactions of an   *)
(* all-or-nothing Batch for sendBatch.  Every transmission is signed with  *)
(* the account sequence of the last validated ledger, so the transmissions *)
(* that can still land all compete for ONE sequence number: when one lands *)
(* (or anything else uses the number up) every other one is dead.  The     *)
(* account sequence itself therefore needs no variable: `flight' is the    *)
(* set of transmissions signed with the current one.  Module Send shows    *)
(* that the polling loop of the code implements these steps.               *)
(***************************************************************************)
EXTENDS Naturals

CONSTANT MaxAttempts   \* attempts of one call (3 in the code)

ASSUME AttemptsAssumption == MaxAttempts \in Nat \ {0}

VARIABLES
    chain,   \* transactions validated with tesSUCCESS on the ledger written to
    flight,  \* transmissions that compete for the current account sequence
    cur,     \* transmission of the call's last attempt, {} outside a call
    att,     \* attempts the running call has used
    dump     \* transactions recorded in the dump file

deliveryVars == <<chain, flight, cur, att, dump>>

DeliveryInit ==
    /\ chain = {}
    /\ flight = {}
    /\ cur = {}
    /\ att = 0
    /\ dump = {}

-----------------------------------------------------------------------------
(***************************************************************************)
(* The sending side.                                                       *)
(***************************************************************************)

\* Mutant of Transmit: the attempt limit is off by one.
TransmitOneTooMany(txs) ==
    /\ att <= MaxAttempts
    /\ flight' = flight \cup {txs}
    /\ cur' = txs
    /\ att' = att + 1
    /\ UNCHANGED <<chain, dump>>

\* One attempt: read the sequence, sign, submit.  A later attempt replaces
\* the one being polled; the earlier transmission is still out there.
Transmit(txs) ==
    /\ att < MaxAttempts
    /\ flight' = flight \cup {txs}
    /\ cur' = txs
    /\ att' = att + 1
    /\ UNCHANGED <<chain, dump>>

\* Mutant of Confirm: the record replaces the dump instead of extending it.
ConfirmOverwrites ==
    /\ cur # {}
    /\ cur \subseteq chain
    /\ dump' = cur
    /\ cur' = {}
    /\ att' = 0
    /\ UNCHANGED <<chain, flight>>

\* The poll sees the last attempt validated: every transaction of it is
\* appended to the dump, the dump is saved, and the call returns.
Confirm ==
    /\ cur # {}
    /\ cur \subseteq chain
    /\ dump' = dump \cup cur
    /\ cur' = {}
    /\ att' = 0
    /\ UNCHANGED <<chain, flight>>

\* The call returns an error, or the process dies: nothing more is recorded,
\* whatever is in flight stays in flight.
GiveUp ==
    /\ cur' = {}
    /\ att' = 0
    /\ UNCHANGED <<chain, flight, dump>>

\* os.WriteFile truncates before it writes.  A failure or a crash in the
\* middle of the save leaves a file that dump.Load refuses.
Tear ==
    /\ cur # {}
    /\ cur \subseteq chain
    /\ dump' = {}
    /\ cur' = {}
    /\ att' = 0
    /\ UNCHANGED <<chain, flight>>

-----------------------------------------------------------------------------
(***************************************************************************)
(* The network.                                                            *)
(***************************************************************************)

\* A ledger closes with one of the competing transmissions in it.
Land(txs) ==
    /\ txs \in flight
    /\ chain' = chain \cup txs
    /\ flight' = {}
    /\ UNCHANGED <<cur, att, dump>>

\* The sequence is used up and nothing of ours applied: a tec result, an
\* inner failure of a Batch, another transaction of the account.  Expiry of
\* all of them has the same effect.
Void ==
    /\ flight # {}
    /\ flight' = {}
    /\ UNCHANGED <<chain, cur, att, dump>>

\* The steps, for a caller that asks for the transmissions in groups.
DeliveryNext(groups) ==
    \/ \E txs \in groups : Transmit(txs) \/ Land(txs)
    \/ Confirm
    \/ GiveUp
    \/ Tear
    \/ Void
=============================================================================
