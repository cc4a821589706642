------------------------------ MODULE Attest ------------------------------
(***************************************************************************)
(* Public attestations (internal/pubattest, attest-key, attest-verify and  *)
(* the attestation part of backup --submit): hosts that share one writer   *)
(* account publish, on their anchor transactions, attestations signed by   *)
(* the validator master key (version 1) or by a delegated key (version 2), *)
(* and anyone judges the newest one from the account's history.            *)
(*                                                                         *)
(* Signatures are ideal: a signature is the pair of its signer and its     *)
(* message, and verifies under that key for that message only.  Messages   *)
(* are tuples that start with the prefix of the signed string; a backup id *)
(* stands for the epoch, the seq and the id of the manifest.               *)
(***************************************************************************)
EXTENDS Naturals, SequencesExt

CONSTANTS
    Hosts,        \* machines that hold the writer key
    Validators,   \* validator master keys (vpk)
    AttestKeys,   \* ed25519 keys that attest-key may generate
    MaxDSeq,      \* bound: highest delegation sequence
    MaxTxs,       \* bound: length of the account's history
    MaxNoise,     \* bound: failed, foreign and hand-made transactions in it
    MaxDropped,   \* bound: transactions missing from the history backup reads
    NoKey, Torn   \* no attestation key file; one cut while it was written

VARIABLES
    txs,      \* the account_tx history, oldest first
    keyfile,  \* xrplbak-attest.key of each host
    run       \* per host, the anchor transaction in flight (at most one)

vars == <<txs, keyfile, run>>

Account == "writer"
-----------------------------------------------------------------------------
(* The signed strings and the memos that carry the signatures.             *)

DelegationString(vpk, account, pub, dseq) == <<"delegate", vpk, account, pub, dseq>>
DelegatedSignString(vpk, account, dseq, id) == <<"attest-delegated", vpk, account, dseq, id>>
SignString(vpk, account, id) == <<"attest-public", vpk, account, id>>

Sign(key, msg) == [by |-> key, msg |-> msg]
VerifyEd25519(key, msg, sig) == sig = Sign(key, msg)

DelegationMemo(k, sig) ==
    [type |-> "delegation", vpk |-> k.vpk, pub |-> k.pub, dseq |-> k.dseq, sig |-> sig]
DelegatedMemo(k, account, id) ==
    [type |-> "attestation", version |-> 2, vpk |-> k.vpk, dseq |-> k.dseq, id |-> id,
     sig |-> Sign(k.pub, DelegatedSignString(k.vpk, account, k.dseq, id))]
Memo(vpk, id, sig) ==
    [type |-> "attestation", version |-> 1, vpk |-> vpk, dseq |-> 0, id |-> id, sig |-> sig]

\* Delegation.Verify, which CheckDelegation repeats before publishing.
VerifyDelegation(d, account) ==
    VerifyEd25519(d.vpk, DelegationString(d.vpk, account, d.pub, d.dseq), d.sig)
\* Record.Verify, which Check repeats before publishing.
Verify(r, account) ==
    r.version = 1 /\ VerifyEd25519(r.vpk, SignString(r.vpk, account, r.id), r.sig)
-----------------------------------------------------------------------------
(* Evaluate.                                                               *)

None         == [status |-> "none", reason |-> "", att |-> <<>>]
Valid(att)   == [status |-> "valid", reason |-> "", att |-> <<att>>]
Invalid(att, why) == [status |-> "invalid", reason |-> why, att |-> <<att>>]

Counted(t, account) == t.account = account /\ t.result = "tesSUCCESS"

\* Every memo the loop counts, with its ledger and its order.
Ordered(history, account) ==
    FlattenSeq([i \in DOMAIN history |->
        IF Counted(history[i], account)
          THEN [j \in DOMAIN history[i].memos |-> [m |-> history[i].memos[j], lgr |-> history[i].lgr]]
          ELSE <<>>])

\* Mutant of Newest: of two attestations in one ledger the first is kept.
NewestFirst(ms) ==
    LET atts == {p \in DOMAIN ms : ms[p].m.type = "attestation"}
    IN IF atts = {} THEN 0
       ELSE CHOOSE p \in atts : \A q \in atts : ms[q].lgr < ms[p].lgr \/ (ms[q].lgr = ms[p].lgr /\ q >= p)

\* attOrder: the order of the newest attestation by ledger, the later memo on
\* a tie; or 0.
Newest(ms) ==
    LET atts == {p \in DOMAIN ms : ms[p].m.type = "attestation"}
    IN IF atts = {} THEN 0
       ELSE CHOOSE p \in atts : \A q \in atts : ms[q].lgr < ms[p].lgr \/ (ms[q].lgr = ms[p].lgr /\ q <= p)

\* The delegations that verify, by the order of their memo.
Delegations(ms, account) ==
    {p \in DOMAIN ms : ms[p].m.type = "delegation" /\ VerifyDelegation(ms[p].m, account)}

SignedUnder(pub, r) == VerifyEd25519(pub, DelegatedSignString(r.vpk, Account, r.dseq, r.id), r.sig)

\* Mutant of Judge: delegations that landed after the attestation count too.
JudgeAnyOrder(ms, dels, att) ==
    LET r == ms[att].m
        mine == {p \in dels : ms[p].m.vpk = r.vpk}
        same == {p \in mine : ms[p].m.dseq = r.dseq}
    IN IF \E p \in mine : ms[p].m.dseq > r.dseq THEN Invalid(r, "replaced")
       ELSE IF same = {} THEN Invalid(r, "no delegation")
       ELSE IF \E p \in same : (\A q \in same : q <= p) /\ SignedUnder(ms[p].m.pub, r)
            THEN Valid(r) ELSE Invalid(r, "bad signature")

\* Mutant of Judge: the first delegation of the dseq names the key.
JudgeFirstMatch(ms, dels, att) ==
    LET r == ms[att].m
        mine == {p \in dels : ms[p].m.vpk = r.vpk /\ p <= att}
        same == {p \in mine : ms[p].m.dseq = r.dseq}
    IN IF \E p \in mine : ms[p].m.dseq > r.dseq /\ p < att THEN Invalid(r, "replaced")
       ELSE IF same = {} THEN Invalid(r, "no delegation")
       ELSE IF \E p \in same : (\A q \in same : q >= p) /\ SignedUnder(ms[p].m.pub, r)
            THEN Valid(r) ELSE Invalid(r, "bad signature")

\* The judgement of a delegated attestation: a higher dseq that landed before
\* it retires its key; the last delegation of its own dseq names the key.
Judge(ms, dels, att) ==
    LET r == ms[att].m
        mine == {p \in dels : ms[p].m.vpk = r.vpk /\ p <= att}
        same == {p \in mine : ms[p].m.dseq = r.dseq}
    IN IF \E p \in mine : ms[p].m.dseq > r.dseq /\ p < att THEN Invalid(r, "replaced")
       ELSE IF same = {} THEN Invalid(r, "no delegation")
       ELSE IF \E p \in same : (\A q \in same : q <= p) /\ SignedUnder(ms[p].m.pub, r)
            THEN Valid(r) ELSE Invalid(r, "bad signature")

Evaluate(history, account) ==
    LET ms  == Ordered(history, account)
        att == Newest(ms)
    IN CASE att = 0 -> None
         [] att > 0 /\ ms[att].m.version = 1 ->
              IF Verify(ms[att].m, account) THEN Valid(ms[att].m)
                                            ELSE Invalid(ms[att].m, "bad signature")
         [] att > 0 /\ ms[att].m.version = 2 -> Judge(ms, Delegations(ms, account), att)

\* The exit code of attest-verify, with the wanted validator key or none.
AttestVerify(history, want) ==
    LET f == Evaluate(history, Account)
    IN CASE f.status = "none" -> 3
         [] f.status = "invalid" -> 4
         [] OTHER -> IF want # {} /\ f.att[1].vpk \notin want THEN 4 ELSE 0
-----------------------------------------------------------------------------
(* The hosts.                                                              *)

Key == [vpk : Validators, pub : AttestKeys, dseq : 0..MaxDSeq]

\* A key file that is not there, or torn, is no key.
ASSUME AttestAssumption ==
    /\ MaxDSeq \in Nat /\ MaxTxs \in Nat /\ MaxNoise \in Nat /\ MaxDropped \in Nat
    /\ NoKey \notin Key /\ Torn \notin Key

\* Ledgers close with two transactions of the account in them.
LedgerOf(i) == (i + 1) \div 2

Room == Len(txs) < MaxTxs

\* `unseen' remembers, for the properties, that a delegation landed where the
\* run that published this transaction could not see it.
Put(account, result, memos, unseen) ==
    /\ Room
    /\ txs' = Append(txs, [account |-> account, result |-> result, memos |-> memos,
                           lgr |-> LedgerOf(Len(txs) + 1), unseen |-> unseen])

Noise(t) ==
    \/ ~Counted(t, Account)
    \/ \A j \in DOMAIN t.memos : t.memos[j].type = "delegation"
Quiet == Cardinality({i \in DOMAIN txs : Noise(txs[i])}) < MaxNoise

\* Positions of verified delegations of v with this dseq or a higher one.
Superseding(v, dseq) ==
    {i \in DOMAIN txs : /\ Counted(txs[i], Account)
                        /\ \E j \in DOMAIN txs[i].memos :
                              /\ txs[i].memos[j].type = "delegation"
                              /\ VerifyDelegation(txs[i].memos[j], Account)
                              /\ txs[i].memos[j].vpk = v /\ txs[i].memos[j].dseq >= dseq}

\* The id of the backup a host plans now: its content and the next seq.
PlanSeq == Cardinality({i \in DOMAIN txs : Counted(txs[i], Account)}) + 1
PlanId(h) == <<h, PlanSeq>>

\* Keys that a file, a run or the history mentions; a new one is none of them.
Published(memos) == {memos[j].pub : j \in {j \in DOMAIN memos : memos[j].type = "delegation"}}
Signed(memos) == {memos[j].sig.by : j \in DOMAIN memos}
InUse ==
    {keyfile[h].pub : h \in {h \in Hosts : keyfile[h] \in Key}}
      \cup UNION {Published(txs[i].memos) \cup Signed(txs[i].memos) : i \in DOMAIN txs}
      \cup UNION {Signed(run[h][1].memos) : h \in {h \in Hosts : run[h] # <<>>}}

\* --dseq must be between 1 and 4294967295.
DSeqAllowed(d) == d # 0

\* attest-key: a key file that exists, whole or torn, is never overwritten.
AttestKey(h) ==
    /\ keyfile[h] = NoKey /\ Room
    /\ \E k \in Key :
          /\ DSeqAllowed(k.dseq)
          /\ k.pub \notin InUse
          /\ keyfile' \in {[keyfile EXCEPT ![h] = k], [keyfile EXCEPT ![h] = Torn]}
    /\ UNCHANGED <<txs, run>>

\* The operator moves the key file away, to replace the key.
MoveAway(h) ==
    /\ keyfile[h] # NoKey
    /\ keyfile' = [keyfile EXCEPT ![h] = NoKey]
    /\ UNCHANGED <<txs, run>>

\* anchorMemos: the delegation rides ahead of the attestation it makes valid.
AnchorMemos(deleg, att) == deleg \o att

\* What the server shows: all of the history, or what it has not dropped.
View(from) == SubSeq(txs, from, Len(txs))

\* Mutant of Acceptable: an attestation without a delegation is let through.
AcceptableUnjudged(view, memos) == TRUE

\* delegatedMemos: the history as read, with the anchor about to be sent at
\* its end, must read as valid.
Acceptable(view, memos) ==
    LET top == IF view = <<>> THEN 0 ELSE Last(view).lgr
        next == [account |-> Account, result |-> "tesSUCCESS", memos |-> memos,
                 lgr |-> top + 1, unseen |-> FALSE]
    IN Evaluate(Append(view, next), Account).status = "valid"

\* backup --submit --attest, up to the confirmation prompt: the memos are
\* fixed and judged against the history read now.  withSig is the master
\* key's signature over the delegation of this key.
SubmitDelegated(h, withSig, from) ==
    /\ run[h] = <<>> /\ Room
    /\ keyfile[h] \in Key
    /\ LET k == keyfile[h]
           sig == Sign(k.vpk, DelegationString(k.vpk, Account, k.pub, k.dseq))
           deleg == IF withSig THEN <<DelegationMemo(k, sig)>> ELSE <<>>
           memos == AnchorMemos(deleg, <<DelegatedMemo(k, Account, PlanId(h))>>)
       IN /\ withSig => VerifyDelegation(deleg[1], Account)
          /\ Acceptable(View(from), memos)
          /\ run' = [run EXCEPT ![h] = <<[memos |-> memos, read |-> <<from, Len(txs)>>]>>]
    /\ UNCHANGED <<txs, keyfile>>

\* backup --submit --attest-public-sig, with the master key's signature over
\* the string that the dry run of this or of an earlier backup printed: Check
\* refuses a signature that is not over the string of this backup.
SubmitMaster(h, v, n) ==
    /\ run[h] = <<>> /\ Room
    /\ LET memo == Memo(v, PlanId(h), Sign(v, SignString(v, Account, <<h, n>>)))
       IN /\ Verify(memo, Account)
          /\ run' = [run EXCEPT ![h] = <<[memos |-> AnchorMemos(<<>>, <<memo>>), read |-> <<1, Len(txs)>>]>>]
    /\ UNCHANGED <<txs, keyfile>>

\* The anchor in flight lands, with either result, or never does.
Land(h) ==
    /\ run[h] # <<>>
    /\ LET f == run[h][1]
           att == Last(f.memos)
           unseen == \E i \in Superseding(att.vpk, att.dseq) : i < f.read[1] \/ i > f.read[2]
       IN \/ Put(Account, "tesSUCCESS", f.memos, unseen)
          \/ Quiet /\ Put(Account, "tec", f.memos, unseen)
    /\ run' = [run EXCEPT ![h] = <<>>]
    /\ UNCHANGED <<keyfile>>

Drop(h) ==
    /\ run[h] # <<>>
    /\ run' = [run EXCEPT ![h] = <<>>]
    /\ UNCHANGED <<txs, keyfile>>

\* A transaction of another account that touches this one, with memos copied
\* from the history.
Stray ==
    /\ Quiet
    /\ \E i \in DOMAIN txs : Put("stranger", "tesSUCCESS", txs[i].memos, FALSE)
    /\ UNCHANGED <<keyfile, run>>

\* The writer account posts a delegation by itself, signed by the master key
\* or not: whoever holds the writer seed can, with another tool.
PostDelegation ==
    /\ Quiet
    /\ \E k \in Key \cap Range(keyfile), signer \in {"master", "other"} :
         LET by == IF signer = "master" THEN k.vpk ELSE k.pub IN
         Put(Account, "tesSUCCESS",
             <<DelegationMemo(k, Sign(by, DelegationString(k.vpk, Account, k.pub, k.dseq)))>>, FALSE)
    /\ UNCHANGED <<keyfile, run>>

Init ==
    /\ txs = <<>>
    /\ keyfile = [h \in Hosts |-> NoKey]
    /\ run = [h \in Hosts |-> <<>>]

Next ==
    \/ \E h \in Hosts :
          \/ AttestKey(h) \/ MoveAway(h) \/ Land(h) \/ Drop(h)
          \/ \E v \in Validators, n \in 1..PlanSeq : SubmitMaster(h, v, n)
          \/ \E withSig \in BOOLEAN, from \in 1..(MaxDropped + 1) : SubmitDelegated(h, withSig, from)
    \/ Stray \/ PostDelegation

Spec == Init /\ [][Next]_vars

\* Hosts and attestation keys are interchangeable.
Symmetry == Permutations(Hosts) \cup Permutations(AttestKeys)
-----------------------------------------------------------------------------
\* Memos are placed by transaction and then by position.
Places(history) ==
    {p \in (1..Len(history)) \X (1..2) :
        Counted(history[p[1]], Account) /\ p[2] <= Len(history[p[1]].memos)}
Before(p, q) == p[1] < q[1] \/ (p[1] = q[1] /\ p[2] < q[2])
MemoAt(p) == txs[p[1]].memos[p[2]]
Attested == {p \in Places(txs) : MemoAt(p).type = "attestation"}
Delegated(v) == {p \in Places(txs) : /\ MemoAt(p).type = "delegation" /\ MemoAt(p).vpk = v
                                     /\ VerifyDelegation(MemoAt(p), Account)}

\* What the comment of Evaluate promises a third party (attest-verify, exit
\* 0): the newest attestation of the account itself is by the master key for
\* that very backup, or by the key of the last delegation of its dseq, which
\* stands before it with no higher dseq before it.
VouchedFor ==
    AttestVerify(txs, {}) = 0 <=>
        \E p \in Attested :
            LET r == MemoAt(p) IN
            /\ \A q \in Attested : q = p \/ Before(q, p)
            /\ \/ r.version = 1 /\ r.sig = Sign(r.vpk, SignString(r.vpk, Account, r.id))
               \/ \E d \in Delegated(r.vpk) :
                     /\ Before(d, p) /\ MemoAt(d).dseq = r.dseq
                     /\ r.sig.by = MemoAt(d).pub
                     /\ \A e \in Delegated(r.vpk) : Before(e, p) =>
                           MemoAt(e).dseq < r.dseq \/ (MemoAt(e).dseq = r.dseq /\ ~Before(d, e))

\* An attestation that backup let through reads as valid once it has landed,
\* unless a delegation of the same validator key with its dseq or a higher
\* one landed where the judged history did not show it: after it was read (the
\* operator is at the prompt, another host is faster) or before its first
\* ledger (a server that has dropped history).  Behaviour of delegatedMemos
\* and doSubmit.
PublishedValid ==
    \A p \in Attested :
        Evaluate(SubSeq(txs, 1, p[1]), Account).status = "valid" \/ txs[p[1]].unseen

\* A verdict on an attestation is final: a delegation that lands later, a
\* failed transaction, a stranger's copy or an unsigned delegation change
\* nothing, so retiring a key does not disown what it attested (Evaluate,
\* "landed before it").
VerdictSettled ==
    [][\/ txs' = txs
       \/ Newest(Ordered(txs, Account)) # Newest(Ordered(txs', Account))
       \/ Evaluate(txs, Account) = Evaluate(txs', Account)]_vars

\* A server that has dropped old ledgers, or a dump that holds one run only,
\* never makes a valid attestation look forged or retired: it reads as valid,
\* as none, or as lacking its delegation (attest-verify).
PrunedExplained ==
    LET shown == {View(from) : from \in 1..(Len(txs) + 1)} \cup {<<txs[i]>> : i \in DOMAIN txs}
    IN Evaluate(txs, Account).status = "valid" =>
         \A view \in {s \in shown : s # <<>> /\ Last(s) = Last(txs)} :
             LET g == Evaluate(view, Account) IN
             g.status = "invalid" => g.reason = "no delegation"

\* What attest-verify tells is true of who signed what and when, and where it
\* sees only a part of the history it errs on the side of a delegation it
\* did not find (Evaluate).
VerdictMeans == VouchedFor /\ PrunedExplained
=============================================================================
