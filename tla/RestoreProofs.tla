--------------------------- MODULE RestoreProofs ----------------------------
(***************************************************************************)
(* Proofs about module Restore, for every bound on backups, edits, dry     *)
(* runs, cuts and restores.                                                *)
(*                                                                         *)
(* The first part is about restore.Build: what it makes of the containers  *)
(* backup.Build wrote, with the bundle and without it.  The second part    *)
(* follows a backup from its plan to the ledger and the bundle file, the   *)
(* third a restore from its plan to the target directory.                  *)
(***************************************************************************)
EXTENDS Restore, TLAPS, FiniteSetTheorems, SequenceTheorems

USE DEF Config, Extra, Twin, Odd, Raw

-----------------------------------------------------------------------------
(* Sequences made from sets, and least numbers.                            *)

\* SetToSeq lists each element of a finite set once.
LEMMA SetToSeqLists ==
    ASSUME NEW S, IsFiniteSet(S)
    PROVE  /\ Cardinality(S) \in Nat
           /\ SetToSeq(S) \in [1..Cardinality(S) -> S]
           /\ IsInjective(SetToSeq(S))
           /\ Range(SetToSeq(S)) = S
<1>1. /\ Cardinality(S) \in Nat
      /\ ExistsBijection(1..Cardinality(S), S)
    BY FS_CardinalityType
<1>2. \E f \in [1..Cardinality(S) -> S] : IsInjective(f)
    BY <1>1 DEF ExistsBijection, Bijection, Injection
<1>3. SetToSeq(S) \in [1..Cardinality(S) -> S] /\ IsInjective(SetToSeq(S))
    BY <1>2 DEF SetToSeq
<1>4. SetToSeq(S) \in Injection(1..Cardinality(S), S)
    BY <1>3 DEF Injection
<1>5. Cardinality(1..Cardinality(S)) = Cardinality(S)
    BY <1>1, FS_Interval
<1>6. SetToSeq(S) \in Surjection(1..Cardinality(S), S)
    BY <1>4, <1>5, FS_Injection
<1>7. Range(SetToSeq(S)) = S
    BY <1>3, <1>6 DEF Surjection, Range
<1> QED
    BY <1>1, <1>3, <1>7

\* The files there are, and so every set of them, are finitely many.
LEMMA FilesFinite ==
    ASSUME NEW S \in SUBSET Paths
    PROVE  IsFiniteSet(S)
<1>1. IsFiniteSet(Paths)
    <2>1. IsFiniteSet({} \cup {Config})
        BY FS_EmptySet, FS_AddElement
    <2>2. IsFiniteSet(({} \cup {Config}) \cup {Extra})
        BY <2>1, FS_AddElement
    <2>3. IsFiniteSet((({} \cup {Config}) \cup {Extra}) \cup {Twin})
        BY <2>2, FS_AddElement
    <2>4. IsFiniteSet(((({} \cup {Config}) \cup {Extra}) \cup {Twin}) \cup {Odd})
        BY <2>3, FS_AddElement
    <2>5. IsFiniteSet((((({} \cup {Config}) \cup {Extra}) \cup {Twin}) \cup {Odd}) \cup {Raw})
        BY <2>4, FS_AddElement
    <2>6. (((({} \cup {Config}) \cup {Extra}) \cup {Twin}) \cup {Odd}) \cup {Raw} = Paths
        BY DEF Paths
    <2> QED
        BY <2>5, <2>6
<1> QED
    BY <1>1, FS_Subset

-----------------------------------------------------------------------------
(* restore.Build on what backup.Build made.                                *)

\* A backup with files: the plans restore can choose.
Real == {p \in Plan : ~p.tomb /\ Buildable(p)}

\* The manifest of a real backup lists the config and then each included
\* file, every path once.
LEMMA ManifestLists ==
    ASSUME NEW c \in Real
    PROVE  /\ Range(ManifestFiles(c)) = {Config} \cup c.incs
           /\ \A i, j \in DOMAIN ManifestFiles(c) :
                 ManifestFiles(c)[i] = ManifestFiles(c)[j] => i = j
           /\ Config \notin c.incs
           /\ c.incs \subseteq Paths
<1> DEFINE s == SetToSeq(c.incs)
           n == Cardinality(c.incs)
<1>1. ~c.tomb /\ Config \notin c.incs /\ c.incs \in SUBSET Paths
    BY DEF Real, Plan, Buildable
<1>2. n \in Nat /\ s \in [1..n -> c.incs] /\ IsInjective(s) /\ Range(s) = c.incs
    BY <1>1, FilesFinite, SetToSeqLists
<1>3. ManifestFiles(c) = <<Config>> \o s
    BY <1>1 DEF ManifestFiles
<1> HIDE DEF s, n
<1>4. s \in Seq(Paths) /\ Len(s) = n
    BY <1>1, <1>2
<1>5. /\ ManifestFiles(c) \in Seq(Paths)
      /\ Len(ManifestFiles(c)) = 1 + n
      /\ ManifestFiles(c)[1] = Config
      /\ \A k \in 2..(1 + n) : ManifestFiles(c)[k] = s[k - 1]
    <2>1. Config \in Paths
        BY DEF Paths
    <2> QED
        BY <1>2, <1>3, <1>4, <2>1
<1>6. DOMAIN ManifestFiles(c) = 1..(1 + n)
    BY <1>5
<1>7. ASSUME NEW i \in DOMAIN ManifestFiles(c), NEW j \in DOMAIN ManifestFiles(c),
             ManifestFiles(c)[i] = ManifestFiles(c)[j]
      PROVE  i = j
    <2>1. CASE i = 1 /\ j = 1
        BY <2>1
    <2>2. CASE i = 1 /\ j # 1
        BY <2>2, <1>1, <1>2, <1>5, <1>6, <1>7
    <2>3. CASE i # 1 /\ j = 1
        BY <2>3, <1>1, <1>2, <1>5, <1>6, <1>7
    <2>4. CASE i # 1 /\ j # 1
        <3>1. i - 1 \in 1..n /\ j - 1 \in 1..n /\ s[i - 1] = s[j - 1]
            BY <2>4, <1>2, <1>5, <1>6, <1>7
        <3> QED
            BY <3>1, <1>2, <1>6 DEF IsInjective
    <2> QED
        BY <2>1, <2>2, <2>3, <2>4
<1>8. Range(ManifestFiles(c)) = {Config} \cup c.incs
    <2>1. ASSUME NEW p \in Range(ManifestFiles(c))
          PROVE  p \in {Config} \cup c.incs
        <3>1. PICK k \in 1..(1 + n) : p = ManifestFiles(c)[k]
            BY <1>6 DEF Range
        <3> QED
            BY <3>1, <1>2, <1>5
    <2>2. Config \in Range(ManifestFiles(c))
        BY <1>2, <1>5, <1>6 DEF Range
    <2>3. ASSUME NEW p \in c.incs
          PROVE  p \in Range(ManifestFiles(c))
        <3>1. PICK k \in 1..n : p = s[k]
            BY <1>2 DEF Range
        <3>2. k + 1 \in DOMAIN ManifestFiles(c) /\ ManifestFiles(c)[k + 1] = p
            BY <3>1, <1>2, <1>5, <1>6
        <3> QED
            BY <3>2 DEF Range
    <2> QED
        BY <2>1, <2>2, <2>3
<1> QED
    BY <1>1, <1>7, <1>8

\* restore.Build refuses such a backup for its paths alone: one that the
\* manifest lists, or one of an entry.
LEMMA RefusedIs ==
    ASSUME NEW c \in Real, NEW S, {e.path : e \in S} \subseteq {Config} \cup c.incs
    PROVE  BuildRefused(c, S) <=>
              \/ \E p \in {Config} \cup c.incs : ~checkListed(p)
              \/ \E e \in S : ~checkPath(e.path)
<1> DEFINE m == ManifestFiles(c)
<1>1. /\ Range(m) = {Config} \cup c.incs
      /\ \A i, j \in DOMAIN m : m[i] = m[j] => i = j
    BY ManifestLists
<1>2. BuildRefused(c, S) <=>
         \/ \E i \in DOMAIN m : ~checkListed(m[i])
         \/ \E i, j \in DOMAIN m : i # j /\ m[i] = m[j]
         \/ \E e \in S : ~checkPath(e.path) \/ e.path \notin Range(m)
    BY DEF BuildRefused
<1> HIDE DEF m
<1>3. (\E i \in DOMAIN m : ~checkListed(m[i])) <=> \E p \in Range(m) : ~checkListed(p)
    BY DEF Range
<1>4. \A e \in S : e.path \in Range(m)
    BY <1>1
<1> QED
    BY <1>1, <1>2, <1>3, <1>4

\* Every path of the backup passes restore's check.
Safe(c) == \A p \in {Config} \cup c.incs : checkPath(p)

\* What restore.Build makes of a backup and its own bundle.
MadeWith(c, r) ==
    /\ ~Safe(c) => r.exit = 3
    /\ Safe(c) =>
         /\ r.exit = 0 /\ r.cand = c /\ r.todo = OneHost(c)
         /\ r.complete = {Config} \cup c.incs
         /\ DOMAIN r.files = {Config} \cup c.incs
         /\ r.files[Config] = Whole(Config, c.ver)

\* With its own bundle a real backup is restored complete: every file of the
\* manifest has its whole content and only the warning about a validator's
\* old host is left to do by hand.  An unsafe path makes it refused.
LEMMA BuildWithBundle ==
    ASSUME NEW c \in Real
    PROVE  MadeWith(c, BuildRestore(c, OnChainEntries(c), TRUE, BundleEntries(c)))
<1> DEFINE E == OnChainEntries(c)
           B == BundleEntries(c)
           F == Recovered(c, E, B)
           e0 == IF HasMoves(c.ver) THEN Gapped(Config, c.ver) ELSE Whole(Config, c.ver)
<1>0. ~c.tomb
    BY DEF Real
<1>1. /\ Range(ManifestFiles(c)) = {Config} \cup c.incs
      /\ \A i, j \in DOMAIN ManifestFiles(c) :
            ManifestFiles(c)[i] = ManifestFiles(c)[j] => i = j
      /\ Config \notin c.incs
    BY ManifestLists
<1>2. E = {e0} /\ e0.path = Config
    BY <1>0 DEF OnChainEntries, Gapped, Whole
<1>3. B = (IF HasMoves(c.ver) THEN {e0} ELSE {}) \cup {Whole(i, c.ver) : i \in c.incs}
    BY <1>0 DEF BundleEntries
<1>4. {e.path : e \in E \cup B} = {Config} \cup c.incs
    <2> HIDE DEF E, B, e0
    <2>1. \A e \in E \cup B : e.path \in {Config} \cup c.incs
        BY <1>2, <1>3 DEF Whole
    <2>2. \E e \in E \cup B : e.path = Config
        BY <1>2
    <2>3. ASSUME NEW p \in c.incs
          PROVE  \E e \in E \cup B : e.path = p
        <3>1. Whole(p, c.ver) \in B /\ Whole(p, c.ver).path = p
            BY <1>3 DEF Whole
        <3> QED
            BY <3>1
    <2> QED
        BY <2>1, <2>2, <2>3
<1>5. F = [path \in {Config} \cup c.incs |->
             IF path \in {e.path : e \in E}
               THEN LET e == CHOOSE e \in E : e.path = path
                    IN IF \E b \in B : b = e /\ e.gaps THEN Whole(path, c.ver) ELSE e
               ELSE CHOOSE b \in B : b.path = path]
    BY <1>4 DEF Recovered
<1>6. F[Config] = Whole(Config, c.ver)
    <2>1. (CHOOSE e \in E : e.path = Config) = e0
        BY <1>2
    <2>2. Config \in {e.path : e \in E}
        BY <1>2
    <2>3. F[Config] = IF \E b \in B : b = e0 /\ e0.gaps THEN Whole(Config, c.ver) ELSE e0
        <3> HIDE DEF E, B, F, e0
        <3>1. F[Config] = IF Config \in {e.path : e \in E}
                            THEN LET e == CHOOSE e \in E : e.path = Config
                                 IN IF \E b \in B : b = e /\ e.gaps THEN Whole(Config, c.ver) ELSE e
                            ELSE CHOOSE b \in B : b.path = Config
            BY <1>5, Zenon
        <3> QED
            BY <2>1, <2>2, <3>1
    <2>4. CASE HasMoves(c.ver)
        <3>1. e0 \in B /\ e0.gaps = TRUE
            BY <1>3, <2>4 DEF Gapped
        <3> QED
            BY <2>3, <3>1
    <2>5. CASE ~HasMoves(c.ver)
        <3>1. e0 = Whole(Config, c.ver)
            BY <2>5
        <3> QED
            BY <2>3, <3>1
    <2> QED
        BY <2>4, <2>5
<1>7. ASSUME NEW p \in c.incs
      PROVE  F[p] = Whole(p, c.ver)
    <2>1. p # Config /\ p \notin {e.path : e \in E}
        BY <1>1, <1>2
    <2>2. \A b \in B : b.path = p => b = Whole(p, c.ver)
        BY <1>2, <1>3, <2>1 DEF Whole
    <2>3. Whole(p, c.ver) \in B /\ Whole(p, c.ver).path = p
        BY <1>3 DEF Whole
    <2>4. (CHOOSE b \in B : b.path = p) = Whole(p, c.ver)
        BY <2>2, <2>3
    <2> QED
        BY <1>5, <2>1, <2>4
<1>8. DOMAIN F = {Config} \cup c.incs
    BY <1>5
<1>9. BuildRefused(c, E \cup B) <=> ~Safe(c)
    <2> HIDE DEF E, B
    <2>1. BuildRefused(c, E \cup B) <=>
            \/ \E p \in {Config} \cup c.incs : ~checkListed(p)
            \/ \E e \in E \cup B : ~checkPath(e.path)
        BY <1>4, RefusedIs
    <2>2. (\E e \in E \cup B : ~checkPath(e.path)) <=> \E p \in {Config} \cup c.incs : ~checkPath(p)
        BY <1>4
    <2> QED
        BY <2>1, <2>2 DEF Safe, checkPath, checkListed
<1>10. Todo(c, TRUE, F) = OneHost(c)
    <2> HIDE DEF F
    <2>1. Range(ManifestFiles(c)) \ DOMAIN F = {}
        BY <1>1, <1>8
    <2> QED
        BY <2>1 DEF Todo
<1>11. {p \in DOMAIN F : F[p] = Whole(p, c.ver)} = {Config} \cup c.incs
    BY <1>6, <1>7, <1>8
<1> DEFINE r == BuildRestore(c, OnChainEntries(c), TRUE, BundleEntries(c))
           C == {p \in DOMAIN F : F[p] = Whole(p, c.ver)}
           T == Todo(c, TRUE, F)
<1>12. r = IF BuildRefused(c, E \cup B) THEN [exit |-> 3]
           ELSE [exit |-> 0, cand |-> c, files |-> F, todo |-> T, complete |-> C]
    BY DEF BuildRestore
<1>13. C = {Config} \cup c.incs /\ T = OneHost(c)
    BY <1>10, <1>11
<1> HIDE DEF E, B, F, C, T, r
<1>14. ~Safe(c) => r.exit = 3
    BY <1>9, <1>12
<1>15. Safe(c) => /\ r.exit = 0 /\ r.cand = c /\ r.todo = OneHost(c)
                  /\ r.complete = {Config} \cup c.incs
                  /\ DOMAIN r.files = {Config} \cup c.incs
                  /\ r.files[Config] = Whole(Config, c.ver)
    BY <1>6, <1>8, <1>9, <1>12, <1>13
<1> QED
    BY <1>14, <1>15, Zenon DEF r, MadeWith

\* Restore tells of a file: it is complete or in the list of things to do.
Tells(r, p) == p \in r.complete \/ {<<"recover", p>>, <<"re-enter", p>>} \cap r.todo # {}

\* What restore.Build makes of a backup without a bundle.
MadeWithout(c, r) ==
    \/ r.exit = 3 /\ ~Safe(c)
    \/ /\ r.exit = 0 /\ r.cand = c
       /\ DOMAIN r.files = {Config}
       /\ \A p \in {Config} \cup c.incs : Tells(r, p)

\* Without a bundle a real backup restores its config alone; the included
\* files, and the config when lines of it moved, are listed as left to do.
\* It is refused for an unsafe path only.
LEMMA BuildWithoutBundle ==
    ASSUME NEW c \in Real
    PROVE  MadeWithout(c, BuildRestore(c, OnChainEntries(c), FALSE, {}))
<1> DEFINE E == OnChainEntries(c)
           F == Recovered(c, E, {})
           e0 == IF HasMoves(c.ver) THEN Gapped(Config, c.ver) ELSE Whole(Config, c.ver)
<1>0. ~c.tomb
    BY DEF Real
<1>1. /\ Range(ManifestFiles(c)) = {Config} \cup c.incs
      /\ \A i, j \in DOMAIN ManifestFiles(c) :
            ManifestFiles(c)[i] = ManifestFiles(c)[j] => i = j
      /\ Config \notin c.incs
    BY ManifestLists
<1>2. E = {e0} /\ e0.path = Config
    BY <1>0 DEF OnChainEntries, Gapped, Whole
<1>3. {e.path : e \in E \cup {}} = {Config}
    BY <1>2
<1>4. F = [path \in {Config} |->
             IF path \in {e.path : e \in E}
               THEN LET e == CHOOSE e \in E : e.path = path
                    IN IF \E b \in {} : b = e /\ e.gaps THEN Whole(path, c.ver) ELSE e
               ELSE CHOOSE b \in {} : b.path = path]
    BY <1>3 DEF Recovered
<1>5. F[Config] = e0
    <2>1. (CHOOSE e \in E : e.path = Config) = e0 /\ Config \in {e.path : e \in E}
        BY <1>2
    <2> QED
        BY <1>4, <2>1
<1>6. DOMAIN F = {Config}
    BY <1>4
<1>7. BuildRefused(c, E \cup {}) => ~Safe(c)
    <2> HIDE DEF E
    <2>1. {e.path : e \in E \cup {}} \subseteq {Config} \cup c.incs
        BY <1>3
    <2>2. BuildRefused(c, E \cup {}) <=>
            \/ \E p \in {Config} \cup c.incs : ~checkListed(p)
            \/ \E e \in E \cup {} : ~checkPath(e.path)
        BY <2>1, RefusedIs
    <2> QED
        BY <2>1, <2>2 DEF Safe, checkPath, checkListed
<1>8. ASSUME NEW p \in c.incs
      PROVE  <<"recover", p>> \in Todo(c, FALSE, F)
    <2> HIDE DEF F
    <2>1. p \in Range(ManifestFiles(c)) \ DOMAIN F
        BY <1>1, <1>6
    <2> QED
        BY <2>1 DEF Todo
<1>9. Config \in {p \in DOMAIN F : F[p] = Whole(p, c.ver)} \/ <<"re-enter", Config>> \in Todo(c, FALSE, F)
    <2>1. CASE HasMoves(c.ver)
        <3>1. Config \in Redactions(c)
            BY <1>0, <2>1 DEF Redactions
        <3> HIDE DEF F
        <3> QED
            BY <3>1 DEF Todo
    <2>2. CASE ~HasMoves(c.ver)
        BY <1>5, <1>6, <2>2
    <2> QED
        BY <2>1, <2>2
<1> DEFINE r == BuildRestore(c, OnChainEntries(c), FALSE, {})
           C == {p \in DOMAIN F : F[p] = Whole(p, c.ver)}
           T == Todo(c, FALSE, F)
<1>10. r = IF BuildRefused(c, E \cup {}) THEN [exit |-> 3]
           ELSE [exit |-> 0, cand |-> c, files |-> F, todo |-> T, complete |-> C]
    BY DEF BuildRestore
<1>11. /\ Config \in C \/ <<"re-enter", Config>> \in T
       /\ \A p \in c.incs : <<"recover", p>> \in T
    BY <1>8, <1>9
<1> HIDE DEF E, F, C, T, r
<1>12. CASE BuildRefused(c, E \cup {})
    <2>1. r.exit = 3 /\ ~Safe(c)
        BY <1>7, <1>10, <1>12
    <2> QED
        BY <2>1, Zenon DEF r, MadeWithout
<1>13. CASE ~BuildRefused(c, E \cup {})
    <2>1. /\ r.exit = 0 /\ r.cand = c /\ r.complete = C /\ r.todo = T
          /\ DOMAIN r.files = {Config}
        BY <1>6, <1>10, <1>13
    <2>2. \A p \in {Config} \cup c.incs : Tells(r, p)
        BY <1>11, <2>1 DEF Tells
    <2> QED
        BY <2>1, <2>2, Zenon DEF r, MadeWithout
<1> QED
    BY <1>12, <1>13

-----------------------------------------------------------------------------
(* The invariant.                                                          *)

Started == {"submit", "write", "writing", "done"}

\* The ledger holds backups with seqs 1, 2, 3 ... in this order, and the
\* backup command what it needs to keep BundleFollows.
BackupInv ==
    /\ ver \in 1..MaxEdits
    /\ landed \in Seq(Plan)
    /\ \A k \in 1..Len(landed) : landed[k].seq = k /\ Buildable(landed[k])
    /\ bundles = [x \in DOMAIN bundles |-> bundles[x]]
    /\ \/ bk = Idle
       \/ /\ bk = Bk(bk.stage, bk.plan) /\ bk.stage \in Started
          /\ bk.plan \in Plan /\ Buildable(bk.plan) /\ bk.plan.seq <= MaxSeq
    /\ bk.stage = "submit" => bk.plan.seq = Len(landed) + 1
    /\ bk.stage = "writing" => bk.plan \in DOMAIN bundles
    /\ bk.stage = "done" /\ ~bk.plan.tomb =>
          bk.plan \in DOMAIN bundles /\ bundles[bk.plan] = <<bk.plan>>

\* A file of the plan that the second loop of WriteTarget is done with.
There(p) == target[BaseOf(p)] = <<rs.plan.files[p]>>

\* While it writes, restore has yet to write the files of `left': every other
\* one is in the target, and no two files go to one base name.
WriteInv ==
    /\ rs.left \in Seq(DOMAIN rs.plan.files)
    /\ \A j, k \in 1..Len(rs.left) : rs.left[j] = rs.left[k] => j = k
    /\ \A p, q \in DOMAIN rs.plan.files : BaseOf(p) = BaseOf(q) => p = q
    /\ \A p \in DOMAIN rs.plan.files :
          There(p) \/ \E k \in 1..Len(rs.left) : rs.left[k] = p
    /\ ~rs.force => \A p \in DOMAIN rs.plan.files : BaseOf(p) \notin rs.had
    /\ rs.had \subseteq {b \in Bases : target[b] # <<>>}
    /\ rs.stage \in {"write", "writing"} => rs.left # <<>>
    /\ rs.stage = "written" => rs.left = <<>>

RestoreInv ==
    /\ DOMAIN target = Bases /\ target = [b \in Bases |-> target[b]]
    /\ rs = Idle \/
          /\ rs = [stage |-> rs.stage, plan |-> rs.plan, force |-> rs.force,
                   had |-> rs.had, left |-> rs.left]
          /\ rs.stage \in {"ask", "write", "writing", "written"}
          /\ rs.force \in BOOLEAN
          /\ Config \in DOMAIN rs.plan.files
          /\ DOMAIN rs.plan.files \subseteq Paths
          /\ rs.stage = "ask" => rs.had = {}
          /\ rs.stage # "ask" => WriteInv
    /\ NothingSilent

IInv == BackupInv /\ BundleFollows /\ RestoreInv

-----------------------------------------------------------------------------
(* Which backup restore and verify take, and what becomes of it.           *)

\* A set of naturals has the least element that Min names.
LEMMA LeastIndex ==
    ASSUME NEW T, T \subseteq Nat, T # {}
    PROVE  Min(T) \in T /\ \A y \in T : Min(T) <= y
<1> DEFINE R == OpToRel(<, Nat)
<1>1. IsWellFoundedOn(R, Nat)
    BY NatLessThanWellFounded
<1>2. \A x, y \in Nat : <<y, x>> \in R <=> y < x
    BY DEF OpToRel
<1> HIDE DEF R
<1>3. PICK x \in T : \A y \in T : ~(<<y, x>> \in R)
    BY <1>1, WFMin
<1>4. \A y \in T : ~(y < x)
    BY <1>2, <1>3, Zenon
<1>5. \E m \in T : \A y \in T : m <= y
    BY <1>4
<1> QED
    BY <1>5 DEF Min

\* The backup the flags name.
Named(flags) == IF flags.want = <<>> THEN Candidates[1] ELSE flags.want[1]

\* --backup-id names a backup that was found.
GoodWant(flags) ==
    /\ flags.want = <<>> \/ \E k \in 1..Len(landed) : flags.want = <<landed[k]>>
    /\ flags.lost \in BOOLEAN /\ flags.allowTomb \in BOOLEAN

\* Candidates is the ledger's list, newest first.
LEMMA CandidatesAre ==
    ASSUME BackupInv, landed # <<>>
    PROVE  /\ Len(landed) \in Nat \ {0} /\ DOMAIN landed = 1..Len(landed)
           /\ DOMAIN Candidates = 1..Len(landed)
           /\ \A k \in 1..Len(landed) :
                 Candidates[k] = landed[Len(landed) - k + 1] /\ Candidates[k] \in Plan
           /\ Candidates[1] = Last(landed)
<1>1. landed \in Seq(Plan)
    BY DEF BackupInv
<1>2. Len(landed) \in Nat \ {0} /\ DOMAIN landed = 1..Len(landed)
    BY <1>1, EmptySeq, LenProperties
<1>3. \A k \in 1..Len(landed) : landed[Len(landed) - k + 1] \in Plan
    BY <1>1, <1>2, ElementOfSeq
<1>4. Candidates = [k \in 1..Len(landed) |-> landed[(Len(landed) - k) + 1]]
    BY DEF Candidates, Reverse
<1> QED
    BY <1>2, <1>3, <1>4 DEF Last

\* Without --allow-tombstoned the choice is the backup named, a tombstone is
\* refused; with it the choice is the first real backup past the tombstone.
LEMMA SelectedIs ==
    ASSUME BackupInv, NEW flags, GoodWant(flags), Selected(flags).exit = 0
    PROVE  /\ landed # <<>>
           /\ Selected(flags).cand \in Real
           /\ \/ ~Named(flags).tomb /\ Selected(flags).cand = Named(flags)
              \/ /\ Named(flags).tomb /\ flags.allowTomb
                 /\ PastTombstone(Named(flags)) # {}
                 /\ Selected(flags).cand = Candidates[Min(PastTombstone(Named(flags)))]
<1> DEFINE c == Named(flags)
<1>1. landed # <<>>
    BY DEF Selected
<1>2. /\ Len(landed) \in Nat \ {0}
      /\ DOMAIN Candidates = 1..Len(landed)
      /\ \A k \in 1..Len(landed) :
            Candidates[k] = landed[Len(landed) - k + 1] /\ Candidates[k] \in Plan
    BY <1>1, CandidatesAre
<1>3. \A k \in 1..Len(landed) : Candidates[k] \in Plan /\ Buildable(Candidates[k])
    BY <1>2 DEF BackupInv
<1>4. \E k \in 1..Len(landed) : c = Candidates[k]
    <2>1. CASE flags.want = <<>>
        BY <2>1, <1>2 DEF Named
    <2>2. CASE flags.want # <<>>
        <3>1. PICK k \in 1..Len(landed) : flags.want = <<landed[k]>>
            BY <2>2 DEF GoodWant
        <3>2. c = Candidates[Len(landed) - k + 1] /\ Len(landed) - k + 1 \in 1..Len(landed)
            BY <1>2, <2>2, <3>1 DEF Named
        <3> QED
            BY <3>2
    <2> QED
        BY <2>1, <2>2
<1>5. c \in Plan /\ Buildable(c) /\ c.tomb \in BOOLEAN
    BY <1>3, <1>4 DEF Plan
<1>6. Selected(flags) = CASE ~c.tomb -> [exit |-> 0, cand |-> c]
              [] c.tomb /\ ~flags.allowTomb -> [exit |-> 5]
              [] OTHER -> IF PastTombstone(c) = {} THEN [exit |-> 5]
                          ELSE [exit |-> 0, cand |-> Candidates[Min(PastTombstone(c))]]
    BY <1>1 DEF Selected, Named
<1> HIDE DEF c
<1>7. CASE ~c.tomb
    <2>1. Selected(flags) = [exit |-> 0, cand |-> c]
        BY <1>5, <1>6, <1>7
    <2> QED
        BY <1>1, <1>5, <1>7, <2>1 DEF Real, c
<1>8. CASE c.tomb
    <2>1. flags.allowTomb /\ PastTombstone(c) # {}
        BY <1>5, <1>6, <1>8 DEF GoodWant
    <2>2. Selected(flags) = [exit |-> 0, cand |-> Candidates[Min(PastTombstone(c))]]
        BY <1>5, <1>6, <1>8, <2>1
    <2>3. PastTombstone(c) \subseteq Nat
        BY <1>2 DEF PastTombstone
    <2>4. Min(PastTombstone(c)) \in PastTombstone(c)
        BY <2>1, <2>3, LeastIndex
    <2>5. Candidates[Min(PastTombstone(c))] \in Real
        BY <1>2, <1>3, <2>4 DEF PastTombstone, Real
    <2> QED
        BY <1>1, <1>8, <2>1, <2>2, <2>5 DEF c
<1> QED
    BY <1>5, <1>7, <1>8

\* PlanRestore, case by case.
PlanCases(flags, s, r) ==
    /\ s.exit # 0 => r = s
    /\ s.exit = 0 /\ flags.lost => r.exit = 5
    /\ s.exit = 0 /\ ~flags.lost /\ flags.bundle = <<>> =>
          r = BuildRestore(s.cand, OnChainEntries(s.cand), FALSE, {})
    /\ s.exit = 0 /\ ~flags.lost /\ flags.bundle # <<>>
          /\ bundles[flags.bundle[1]] # <<s.cand>> => r.exit = 4
    /\ s.exit = 0 /\ ~flags.lost /\ flags.bundle # <<>>
          /\ bundles[flags.bundle[1]] = <<s.cand>> =>
          r = BuildRestore(s.cand, OnChainEntries(s.cand), TRUE, BundleEntries(s.cand))

LEMMA PlanRestoreIs ==
    ASSUME NEW flags, flags.lost \in BOOLEAN
    PROVE  PlanCases(flags, Selected(flags), PlanRestore(flags))
<1> DEFINE s == Selected(flags)
           r == PlanRestore(flags)
           f == Fetch(s.cand, flags.lost)
           b == IF flags.bundle = <<>> THEN [exit |-> 0, entries |-> {}]
                ELSE OpenBundle(s.cand, flags.bundle[1])
<1>1. r = CASE s.exit # 0 -> s
            [] s.exit = 0 /\ f.exit # 0 -> f
            [] s.exit = 0 /\ f.exit = 0 /\ b.exit # 0 -> b
            [] OTHER -> BuildRestore(s.cand, f.entries, flags.bundle # <<>>, b.entries)
    BY DEF PlanRestore
<1>2. /\ flags.lost => f.exit = 5
      /\ ~flags.lost => f.exit = 0 /\ f.entries = OnChainEntries(s.cand)
    BY DEF Fetch
<1>3. /\ flags.bundle = <<>> => b.exit = 0 /\ b.entries = {}
      /\ flags.bundle # <<>> /\ bundles[flags.bundle[1]] # <<s.cand>> => b.exit = 4
      /\ flags.bundle # <<>> /\ bundles[flags.bundle[1]] = <<s.cand>> =>
            b.exit = 0 /\ b.entries = BundleEntries(s.cand)
    BY DEF OpenBundle
<1> HIDE DEF s, r, f, b
<1>4. s.exit # 0 => r = s
    BY <1>1
<1>5. s.exit = 0 /\ flags.lost => r.exit = 5
    BY <1>1, <1>2
<1>6. s.exit = 0 /\ ~flags.lost /\ flags.bundle = <<>> =>
        r = BuildRestore(s.cand, OnChainEntries(s.cand), FALSE, {})
    BY <1>1, <1>2, <1>3
<1>7. s.exit = 0 /\ ~flags.lost /\ flags.bundle # <<>>
        /\ bundles[flags.bundle[1]] # <<s.cand>> => r.exit = 4
    BY <1>1, <1>2, <1>3
<1>8. s.exit = 0 /\ ~flags.lost /\ flags.bundle # <<>>
        /\ bundles[flags.bundle[1]] = <<s.cand>> =>
        r = BuildRestore(s.cand, OnChainEntries(s.cand), TRUE, BundleEntries(s.cand))
    BY <1>1, <1>2, <1>3
<1> QED
    BY <1>4, <1>5, <1>6, <1>7, <1>8 DEF s, r, PlanCases

\* What a restore that gets as far as its report has in hand.
LEMMA ReportOf ==
    ASSUME BackupInv, NEW flags, GoodWant(flags), PlanRestore(flags).exit = 0
    PROVE  LET r == PlanRestore(flags)
           IN  /\ Selected(flags).exit = 0 /\ ~flags.lost
               /\ r.cand = Selected(flags).cand /\ r.cand \in Real
               /\ Config \in DOMAIN r.files
               /\ DOMAIN r.files \subseteq Paths
               /\ \A p \in Range(ManifestFiles(r.cand)) : Tells(r, p)
               /\ flags.bundle # <<>> =>
                     /\ bundles[flags.bundle[1]] = <<r.cand>>
                     /\ r.complete = Range(ManifestFiles(r.cand))
<1> DEFINE r == PlanRestore(flags)
           s == Selected(flags)
           c == s.cand
<1>0. flags.lost \in BOOLEAN
    BY DEF GoodWant
<1> HIDE DEF r, s
<1>a. PlanCases(flags, s, r)
    BY <1>0, PlanRestoreIs DEF r, s
<1>b. r.exit = 0
    BY DEF r
<1>1. s.exit = 0 /\ ~flags.lost
    BY <1>0, <1>a, <1>b DEF PlanCases
<1>2. c \in Real
    BY <1>1, SelectedIs DEF s
<1>3. Range(ManifestFiles(c)) = {Config} \cup c.incs /\ c.incs \subseteq Paths
    BY <1>2, ManifestLists
<1>4. CASE flags.bundle = <<>>
    <2>1. r = BuildRestore(c, OnChainEntries(c), FALSE, {})
        BY <1>1, <1>4, <1>a DEF PlanCases
    <2>2. /\ r.cand = c /\ DOMAIN r.files = {Config}
          /\ \A p \in {Config} \cup c.incs : Tells(r, p)
        <3>1. MadeWithout(c, r)
            BY <1>2, <2>1, BuildWithoutBundle
        <3> HIDE DEF c
        <3> QED
            BY <1>b, <3>1 DEF MadeWithout
    <2> HIDE DEF r, c, s
    <2>3. /\ s.exit = 0 /\ ~flags.lost /\ r.cand = s.cand /\ r.cand \in Real
          /\ Config \in DOMAIN r.files /\ DOMAIN r.files \subseteq Paths
          /\ \A p \in Range(ManifestFiles(r.cand)) : Tells(r, p)
        BY <1>1, <1>2, <1>3, <2>2 DEF c, Paths
    <2> QED
        BY <1>4, <2>3 DEF r, s
<1>5. CASE flags.bundle # <<>>
    <2>1. /\ bundles[flags.bundle[1]] = <<c>>
          /\ r = BuildRestore(c, OnChainEntries(c), TRUE, BundleEntries(c))
        <3>1. bundles[flags.bundle[1]] = <<c>>
            BY <1>1, <1>5, <1>a, <1>b DEF PlanCases
        <3> QED
            BY <1>1, <1>5, <1>a, <3>1 DEF PlanCases
    <2>2. /\ r.cand = c /\ DOMAIN r.files = {Config} \cup c.incs
          /\ r.complete = {Config} \cup c.incs
        <3>1. MadeWith(c, r)
            BY <1>2, <2>1, BuildWithBundle
        <3> HIDE DEF c
        <3> QED
            BY <1>b, <3>1 DEF MadeWith
    <2> HIDE DEF r, c, s
    <2>3. /\ s.exit = 0 /\ ~flags.lost /\ r.cand = s.cand /\ r.cand \in Real
          /\ Config \in DOMAIN r.files /\ DOMAIN r.files \subseteq Paths
          /\ \A p \in Range(ManifestFiles(r.cand)) : Tells(r, p)
          /\ bundles[flags.bundle[1]] = <<r.cand>>
          /\ r.complete = Range(ManifestFiles(r.cand))
        BY <1>1, <1>2, <1>3, <2>1, <2>2 DEF c, Paths, Tells
    <2> QED
        BY <2>3 DEF r, s
<1> QED
    BY <1>4, <1>5

-----------------------------------------------------------------------------
(* The backup command keeps its half of the invariant.                     *)

LEMMA BackupKept ==
    ASSUME BackupInv, BundleFollows, [Next]_vars
    PROVE  BackupInv' /\ BundleFollows'
<1> USE BoundsAssumption DEF Idle, Bk, Started
<1>0. /\ landed \in Seq(Plan) /\ Len(landed) \in Nat /\ DOMAIN landed = 1..Len(landed)
      /\ \A k \in 1..Len(landed) : landed[k] \in Plan
    BY LenProperties, ElementOfSeq DEF BackupInv
<1>1. ASSUME NEW submit \in BOOLEAN, NEW tomb \in BOOLEAN,
             NEW incs \in Includes, Backup(submit, tomb, incs)
      PROVE  BackupInv' /\ BundleFollows'
    <2>0. bk.stage = "idle" /\ UNCHANGED <<ver, landed, bundles, hurt>>
        BY <1>1 DEF Backup
    <2>1. PICK seq \in {NextSeq} \cup (IF submit THEN {} ELSE {1}) :
            /\ seq <= MaxSeq
            /\ Buildable([seq |-> seq, ver |-> ver, tomb |-> tomb, incs |-> incs])
            /\ bk' = [stage |-> IF submit THEN "submit" ELSE "write",
                      plan |-> [seq |-> seq, ver |-> ver, tomb |-> tomb, incs |-> incs]]
        BY <1>1 DEF Backup
    <2>2. NextSeq = Len(landed) + 1
        <3>1. CASE landed = <<>>
            BY <3>1 DEF NextSeq
        <3>2. CASE landed # <<>>
            <4>1. Len(landed) \in 1..Len(landed)
                BY <1>0, <3>2, EmptySeq
            <4>2. landed[Len(landed)].seq = Len(landed)
                BY <4>1 DEF BackupInv
            <4> QED
                BY <3>2, <4>2 DEF NextSeq, Last
        <3> QED
            BY <3>1, <3>2
    <2>3. seq \in 1..MaxSeq /\ (submit => seq = Len(landed) + 1)
        BY <1>0, <2>1, <2>2
    <2>4. [seq |-> seq, ver |-> ver, tomb |-> tomb, incs |-> incs] \in Plan
        BY <2>3, PathsAssumption DEF BackupInv, Plan
    <2>5. /\ bk'.stage = (IF submit THEN "submit" ELSE "write")
          /\ bk'.plan = [seq |-> seq, ver |-> ver, tomb |-> tomb, incs |-> incs]
          /\ bk'.plan.seq = seq
        BY <2>1
    <2>6. BackupInv'
        BY <2>0, <2>1, <2>3, <2>4, <2>5 DEF BackupInv
    <2>7. BundleFollows'
        BY <2>0 DEF BundleFollows, BundlePath
    <2> QED
        BY <2>6, <2>7
<1>2. ASSUME Landed
      PROVE  BackupInv' /\ BundleFollows'
    <2>1. /\ bk.stage = "submit" /\ landed' = Append(landed, bk.plan)
          /\ bk' = [stage |-> "write", plan |-> bk.plan]
          /\ UNCHANGED <<ver, bundles, hurt>>
        BY <1>2 DEF Landed
    <2>2. bk.plan \in Plan /\ Buildable(bk.plan) /\ bk.plan.seq = Len(landed) + 1
          /\ bk.plan.seq <= MaxSeq
        BY <2>1 DEF BackupInv
    <2>3. /\ landed' \in Seq(Plan) /\ Len(landed') = Len(landed) + 1
          /\ \A k \in 1..Len(landed) : landed'[k] = landed[k]
          /\ landed'[Len(landed) + 1] = bk.plan
        BY <1>0, <2>1, <2>2, AppendProperties
    <2>4. DOMAIN landed' = 1..(Len(landed) + 1)
        BY <2>3, LenProperties
    <2>5. BackupInv'
        BY <1>0, <2>1, <2>2, <2>3 DEF BackupInv
    <2>6. BundleFollows'
        <3>1. SUFFICES ASSUME NEW k \in DOMAIN landed'
                       PROVE  \/ landed'[k].tomb \/ landed'[k] \in hurt
                              \/ bk'.stage \in {"write", "writing"} /\ bk'.plan = landed'[k]
                              \/ landed'[k] \in DOMAIN bundles /\ bundles[landed'[k]] = <<landed'[k]>>
            BY <2>1 DEF BundleFollows, BundlePath
        <3>2. CASE k \in 1..Len(landed)
            <4>1. bk.stage \notin {"write", "writing"}
                BY <2>1
            <4> QED
                BY <1>0, <2>3, <3>2, <4>1 DEF BundleFollows, BundlePath
        <3>3. CASE k = Len(landed) + 1
            BY <2>1, <2>3, <3>3
        <3> QED
            BY <1>0, <2>4, <3>2, <3>3
    <2> QED
        BY <2>5, <2>6
<1>3. ASSUME OpenBundleFile
      PROVE  BackupInv' /\ BundleFollows'
    <2>0. bk.stage = "write" /\ UNCHANGED <<ver, landed, hurt>>
        BY <1>3 DEF OpenBundleFile
    <2>1. bk.plan \in Plan /\ Buildable(bk.plan) /\ bk.plan.seq <= MaxSeq
        BY <2>0 DEF BackupInv
    <2>2. CASE bk.plan.tomb
        <3>1. bk' = [stage |-> "done", plan |-> bk.plan] /\ bundles' = bundles
            BY <1>3, <2>2 DEF OpenBundleFile
        <3>2. BackupInv'
            BY <2>0, <2>1, <2>2, <3>1 DEF BackupInv
        <3>3. BundleFollows'
            BY <2>0, <2>2, <3>1 DEF BundleFollows, BundlePath
        <3> QED
            BY <3>2, <3>3
    <2>3. CASE ~bk.plan.tomb
        <3>1. /\ bk' = [stage |-> "writing", plan |-> bk.plan]
              /\ bundles' = [x \in DOMAIN bundles \cup {bk.plan} |->
                               IF x = bk.plan THEN <<>> ELSE bundles[x]]
            BY <1>3, <2>3 DEF OpenBundleFile, BundlePath
        <3>2. BackupInv'
            BY <2>0, <2>1, <3>1 DEF BackupInv
        <3>3. BundleFollows'
            BY <2>0, <3>1 DEF BundleFollows, BundlePath
        <3> QED
            BY <3>2, <3>3
    <2> QED
        BY <2>2, <2>3
<1>4. ASSUME WriteBundle
      PROVE  BackupInv' /\ BundleFollows'
    <2>1. /\ bk.stage = "writing" /\ UNCHANGED <<ver, landed, hurt>>
          /\ bundles' = [bundles EXCEPT ![bk.plan] = <<bk.plan>>]
          /\ bk' = [stage |-> "done", plan |-> bk.plan]
        BY <1>4 DEF WriteBundle, BundlePath
    <2>2. /\ bk.plan \in Plan /\ Buildable(bk.plan) /\ bk.plan.seq <= MaxSeq
          /\ bk.plan \in DOMAIN bundles /\ bundles = [x \in DOMAIN bundles |-> bundles[x]]
        BY <2>1 DEF BackupInv
    <2>3. /\ DOMAIN bundles' = DOMAIN bundles /\ bundles'[bk.plan] = <<bk.plan>>
          /\ \A x \in DOMAIN bundles : x # bk.plan => bundles'[x] = bundles[x]
          /\ bundles' = [x \in DOMAIN bundles' |-> bundles'[x]]
        BY <2>1, <2>2
    <2>4. BackupInv'
        BY <2>1, <2>2, <2>3 DEF BackupInv
    <2>5. BundleFollows'
        BY <2>1, <2>2, <2>3 DEF BundleFollows, BundlePath
    <2> QED
        BY <2>4, <2>5
<1>5. ASSUME EndBackup
      PROVE  BackupInv' /\ BundleFollows'
    <2>1. /\ bk' = [stage |-> "idle"] /\ UNCHANGED <<ver, landed, bundles>>
          /\ hurt' = IF bk.stage \in {"write", "writing"} THEN hurt \cup {bk.plan} ELSE hurt
        BY <1>5 DEF EndBackup
    <2>2. BackupInv'
        BY <2>1 DEF BackupInv
    <2>3. BundleFollows'
        BY <2>1 DEF BundleFollows, BundlePath
    <2> QED
        BY <2>2, <2>3
<1>6. ASSUME Edit
      PROVE  BackupInv' /\ BundleFollows'
    BY <1>6 DEF Edit, BackupInv, BundleFollows, BundlePath
<1>7. ASSUME UNCHANGED backupVars
      PROVE  BackupInv' /\ BundleFollows'
    BY <1>7 DEF backupVars, BackupInv, BundleFollows, BundlePath
<1>8. StartRestore \/ CheckTarget \/ OpenTarget \/ WriteTarget \/ EndRestore \/ Own \/ UNCHANGED vars
        => UNCHANGED backupVars
    BY DEF StartRestore, CheckTarget, OpenTarget, WriteTarget, EndRestore, Own, vars, backupVars
<1> QED
    BY <1>1, <1>2, <1>3, <1>4, <1>5, <1>6, <1>7, <1>8 DEF Next

-----------------------------------------------------------------------------
(* The restore command keeps the other half.                               *)

\* The flags a user can give name a backup that was found.
LEMMA FlagsAreGood ==
    ASSUME BackupInv, NEW flags \in Flags
    PROVE  GoodWant(flags)
<1>1. DOMAIN landed = 1..Len(landed)
    BY LenProperties DEF BackupInv
<1> QED
    BY <1>1 DEF Flags, GoodWant

LEMMA StartKept ==
    ASSUME BackupInv, RestoreInv, StartRestore
    PROVE  RestoreInv'
<1>1. target' = target
    BY DEF StartRestore
<1>2. PICK flags \in Flags, force \in BOOLEAN :
        /\ PlanRestore(flags).exit = 0
        /\ rs' = [stage |-> "ask", plan |-> PlanRestore(flags), force |-> force,
                  had |-> {}, left |-> <<>>]
    BY DEF StartRestore
<1> DEFINE r == PlanRestore(flags)
<1>3. /\ Config \in DOMAIN r.files
      /\ DOMAIN r.files \subseteq Paths
      /\ \A p \in Range(ManifestFiles(r.cand)) : Tells(r, p)
    BY <1>2, FlagsAreGood, ReportOf
<1>4. rs' = [stage |-> "ask", plan |-> r, force |-> force, had |-> {}, left |-> <<>>]
    BY <1>2
<1> HIDE DEF r
<1>5. rs'.stage = "ask" /\ rs'.plan = r /\ rs'.force = force /\ rs'.had = {} /\ rs'.left = <<>>
    BY <1>4
<1>6. NothingSilent'
    BY <1>3, <1>5 DEF NothingSilent, Tells
<1> QED
    BY <1>1, <1>3, <1>4, <1>5, <1>6 DEF RestoreInv, Idle

LEMMA CheckKept ==
    ASSUME RestoreInv, CheckTarget
    PROVE  RestoreInv'
<1> DEFINE F == rs.plan.files
           D == DOMAIN F
           q == SetToSeq(D)
           had == {b \in Bases : target[b] # <<>>}
<1>1. /\ rs.stage = "ask" /\ Clear(F, rs.force) /\ target' = target
      /\ rs' = [rs EXCEPT !.stage = "write", !.left = q, !.had = had]
    BY DEF CheckTarget
<1>2. /\ rs = [stage |-> rs.stage, plan |-> rs.plan, force |-> rs.force,
               had |-> rs.had, left |-> rs.left]
      /\ rs.force \in BOOLEAN /\ Config \in D /\ D \subseteq Paths
    BY <1>1 DEF RestoreInv, Idle
<1>3. rs' = [stage |-> "write", plan |-> rs.plan, force |-> rs.force, had |-> had, left |-> q]
    BY <1>1, <1>2
<1>4. IsFiniteSet(D)
    BY <1>2, FilesFinite
<1>5. /\ Cardinality(D) \in Nat /\ q \in [1..Cardinality(D) -> D]
      /\ IsInjective(q) /\ Range(q) = D
    BY <1>4, SetToSeqLists
<1>6. /\ q \in Seq(D) /\ Len(q) = Cardinality(D)
      /\ \A j, k \in 1..Len(q) : q[j] = q[k] => j = k
      /\ \A p \in D : \E k \in 1..Len(q) : q[k] = p
    BY <1>5 DEF IsInjective, Range
<1>7. q # <<>>
    BY <1>2, <1>6
<1>8. /\ \A p, r \in D : BaseOf(p) = BaseOf(r) => p = r
      /\ \A p \in D : rs.force \/ target[BaseOf(p)] = <<>>
    BY <1>1 DEF Clear
<1> HIDE DEF q, had
<1>9. /\ rs'.stage = "write" /\ rs'.plan = rs.plan /\ rs'.force = rs.force
      /\ rs'.had = had /\ rs'.left = q
    BY <1>3
<1>10. ~rs.force => \A p \in D : BaseOf(p) \notin had
    BY <1>8 DEF had
<1>11. had \subseteq {b \in Bases : target[b] # <<>>}
    BY DEF had
<1>12. WriteInv'
    BY <1>1, <1>6, <1>7, <1>8, <1>9, <1>10, <1>11 DEF WriteInv, There
<1>13. NothingSilent'
    BY <1>1, <1>9 DEF RestoreInv, NothingSilent
<1> QED
    <2>1. DOMAIN target' = Bases /\ target' = [b \in Bases |-> target'[b]]
        BY <1>1 DEF RestoreInv
    <2> QED
        BY <1>2, <1>3, <1>9, <1>12, <1>13, <2>1 DEF RestoreInv

\* What the two steps of the second loop find.
LEMMA WritingFacts ==
    ASSUME RestoreInv, rs.stage \in {"write", "writing"}
    PROVE  /\ rs = [stage |-> rs.stage, plan |-> rs.plan, force |-> rs.force,
                    had |-> rs.had, left |-> rs.left]
           /\ WriteInv
           /\ Len(rs.left) \in Nat \ {0}
           /\ rs.left[1] \in DOMAIN rs.plan.files
           /\ BaseOf(rs.left[1]) \in Bases
<1>1. /\ rs = [stage |-> rs.stage, plan |-> rs.plan, force |-> rs.force,
               had |-> rs.had, left |-> rs.left]
      /\ WriteInv
    BY DEF RestoreInv, Idle
<1>2. rs.left \in Seq(DOMAIN rs.plan.files) /\ rs.left # <<>>
    BY <1>1 DEF WriteInv
<1>3. Len(rs.left) \in Nat \ {0}
    BY <1>2, EmptySeq
<1>4. rs.left[1] \in DOMAIN rs.plan.files
    BY <1>2, <1>3, ElementOfSeq
<1> QED
    BY <1>1, <1>3, <1>4 DEF BaseOf, Bases

LEMMA OpenKept ==
    ASSUME RestoreInv, OpenTarget
    PROVE  RestoreInv'
<1> DEFINE b0 == BaseOf(rs.left[1])
<1>1. /\ rs.stage = "write" /\ target' = [target EXCEPT ![b0] = <<Torn>>]
      /\ rs' = [rs EXCEPT !.stage = "writing"]
    BY DEF OpenTarget
<1>2. /\ rs = [stage |-> rs.stage, plan |-> rs.plan, force |-> rs.force,
               had |-> rs.had, left |-> rs.left]
      /\ WriteInv /\ Len(rs.left) \in Nat \ {0}
      /\ rs.left[1] \in DOMAIN rs.plan.files /\ b0 \in Bases
    BY <1>1, WritingFacts
<1>3. rs' = [stage |-> "writing", plan |-> rs.plan, force |-> rs.force,
             had |-> rs.had, left |-> rs.left]
    BY <1>1, <1>2
<1>4. /\ rs'.stage = "writing" /\ rs'.plan = rs.plan /\ rs'.force = rs.force
      /\ rs'.had = rs.had /\ rs'.left = rs.left
    BY <1>3
<1> HIDE DEF b0
<1>5. /\ DOMAIN target' = Bases /\ target' = [b \in Bases |-> target'[b]]
      /\ \A b \in Bases : b # b0 => target'[b] = target[b]
      /\ target'[b0] # <<>>
    BY <1>1, <1>2 DEF RestoreInv
<1>6. ASSUME NEW p \in DOMAIN rs.plan.files
      PROVE  There(p)' \/ \E k \in 1..Len(rs.left) : rs.left[k] = p
    <2>1. CASE BaseOf(p) = b0
        <3>1. p = rs.left[1]
            BY <1>2, <2>1 DEF WriteInv, b0
        <3> QED
            BY <1>2, <3>1
    <2>2. CASE BaseOf(p) # b0
        <3>1. target'[BaseOf(p)] = target[BaseOf(p)]
            BY <1>5, <2>2 DEF BaseOf, Bases
        <3> QED
            BY <1>2, <1>4, <3>1 DEF WriteInv, There
    <2> QED
        BY <2>1, <2>2
<1>7. rs.had \subseteq {b \in Bases : target'[b] # <<>>}
    BY <1>2, <1>5 DEF WriteInv
<1>8. WriteInv'
    BY <1>2, <1>4, <1>6, <1>7 DEF WriteInv
<1>9. NothingSilent'
    BY <1>1, <1>4 DEF RestoreInv, NothingSilent
<1> QED
    BY <1>1, <1>2, <1>3, <1>4, <1>5, <1>8, <1>9 DEF RestoreInv, Idle

LEMMA WriteKept ==
    ASSUME RestoreInv, WriteTarget
    PROVE  RestoreInv'
<1> DEFINE p0 == rs.left[1]
           b0 == BaseOf(p0)
           last == Len(rs.left) = 1
<1>1. /\ rs.stage = "writing" /\ target' = [target EXCEPT ![b0] = <<rs.plan.files[p0]>>]
      /\ rs' = [rs EXCEPT !.stage = IF last THEN "written" ELSE "write", !.left = Tail(@)]
    BY DEF WriteTarget
<1>2. /\ rs = [stage |-> rs.stage, plan |-> rs.plan, force |-> rs.force,
               had |-> rs.had, left |-> rs.left]
      /\ WriteInv /\ Len(rs.left) \in Nat \ {0}
      /\ p0 \in DOMAIN rs.plan.files /\ b0 \in Bases
    BY <1>1, WritingFacts
<1>3. rs' = [stage |-> IF last THEN "written" ELSE "write", plan |-> rs.plan,
             force |-> rs.force, had |-> rs.had, left |-> Tail(rs.left)]
    BY <1>1, <1>2
<1>4. /\ rs'.stage = (IF last THEN "written" ELSE "write")
      /\ rs'.plan = rs.plan /\ rs'.force = rs.force
      /\ rs'.had = rs.had /\ rs'.left = Tail(rs.left)
    BY <1>3
<1> HIDE DEF b0, p0, last
<1>5. /\ DOMAIN target' = Bases /\ target' = [b \in Bases |-> target'[b]]
      /\ \A b \in Bases : b # b0 => target'[b] = target[b]
      /\ target'[b0] = <<rs.plan.files[p0]>>
    BY <1>1, <1>2 DEF RestoreInv
<1>6. /\ Tail(rs.left) \in Seq(DOMAIN rs.plan.files)
      /\ Len(Tail(rs.left)) = Len(rs.left) - 1
      /\ \A k \in 1..(Len(rs.left) - 1) : Tail(rs.left)[k] = rs.left[k + 1]
    <2>1. rs.left \in Seq(DOMAIN rs.plan.files) /\ rs.left # <<>>
        BY <1>1, <1>2 DEF WriteInv
    <2> QED
        BY <2>1, HeadTailProperties
<1>7. /\ last => Tail(rs.left) = <<>>
      /\ ~last => Tail(rs.left) # <<>>
    <2>1. last => Len(Tail(rs.left)) = 0
        BY <1>6 DEF last
    <2>2. ~last => Len(Tail(rs.left)) # 0
        BY <1>2, <1>6 DEF last
    <2> QED
        BY <1>6, <2>1, <2>2, EmptySeq
<1>8. ASSUME NEW p \in DOMAIN rs.plan.files
      PROVE  There(p)' \/ \E k \in 1..Len(Tail(rs.left)) : Tail(rs.left)[k] = p
    <2>1. CASE p = p0
        BY <1>4, <1>5, <2>1 DEF There, b0
    <2>2. CASE p # p0 /\ There(p)
        <3>1. BaseOf(p) # b0 /\ BaseOf(p) \in Bases
            BY <1>2, <2>2 DEF WriteInv, b0, BaseOf, Bases
        <3> QED
            BY <1>4, <1>5, <2>2, <3>1 DEF There
    <2>3. CASE p # p0 /\ \E k \in 1..Len(rs.left) : rs.left[k] = p
        <3>1. PICK k \in 1..Len(rs.left) : rs.left[k] = p
            BY <2>3
        <3>2. k # 1 /\ k - 1 \in 1..(Len(rs.left) - 1) /\ (k - 1) + 1 = k
            BY <1>2, <2>3, <3>1 DEF p0
        <3>3. Tail(rs.left)[k - 1] = p /\ k - 1 \in 1..Len(Tail(rs.left))
            BY <1>6, <3>1, <3>2
        <3> QED
            BY <3>3
    <2> QED
        BY <1>2, <2>1, <2>2, <2>3 DEF WriteInv
<1>9. \A j, k \in 1..Len(Tail(rs.left)) : Tail(rs.left)[j] = Tail(rs.left)[k] => j = k
    <2> SUFFICES ASSUME NEW j \in 1..Len(Tail(rs.left)), NEW k \in 1..Len(Tail(rs.left)),
                        Tail(rs.left)[j] = Tail(rs.left)[k]
                 PROVE  j = k
        OBVIOUS
    <2>1. /\ j + 1 \in 1..Len(rs.left) /\ k + 1 \in 1..Len(rs.left)
          /\ rs.left[j + 1] = rs.left[k + 1]
        BY <1>2, <1>6
    <2>2. j + 1 = k + 1
        BY <1>2, <2>1 DEF WriteInv
    <2> QED
        BY <1>2, <1>6, <2>2
<1>10. rs.had \subseteq {b \in Bases : target'[b] # <<>>}
    BY <1>2, <1>5 DEF WriteInv
<1>11. WriteInv'
    BY <1>2, <1>4, <1>6, <1>7, <1>8, <1>9, <1>10 DEF WriteInv
<1>12. NothingSilent'
    BY <1>1, <1>4 DEF RestoreInv, NothingSilent
<1> QED
    BY <1>1, <1>2, <1>3, <1>4, <1>5, <1>11, <1>12 DEF RestoreInv, Idle

LEMMA OwnKept ==
    ASSUME RestoreInv, Own
    PROVE  RestoreInv'
<1>1. PICK b0 \in Bases : target[b0] = <<>> /\ target' = [target EXCEPT ![b0] = <<OwnFile>>]
    BY DEF Own
<1>2. rs' = rs /\ rs.stage \in {"ask", "write", "writing"}
    BY DEF Own
<1>3. /\ DOMAIN target' = Bases /\ target' = [b \in Bases |-> target'[b]]
      /\ \A b \in Bases : target[b] # <<>> => target'[b] = target[b]
    BY <1>1 DEF RestoreInv
<1>4. NothingSilent'
    BY <1>2 DEF RestoreInv, NothingSilent
<1>5. ASSUME WriteInv
      PROVE  WriteInv'
    <2>1. \A p \in DOMAIN rs.plan.files : There(p) => There(p)'
        <3> SUFFICES ASSUME NEW p \in DOMAIN rs.plan.files, There(p)
                     PROVE  There(p)'
            OBVIOUS
        <3>1. BaseOf(p) \in Bases /\ target[BaseOf(p)] # <<>>
            BY DEF There, BaseOf, Bases
        <3> QED
            BY <1>2, <1>3, <3>1 DEF There
    <2>2. rs.had \subseteq {b \in Bases : target'[b] # <<>>}
        BY <1>3, <1>5 DEF WriteInv
    <2> QED
        BY <1>2, <1>5, <2>1, <2>2 DEF WriteInv
<1> QED
    BY <1>2, <1>3, <1>4, <1>5 DEF RestoreInv

LEMMA RestoreKept ==
    ASSUME BackupInv, RestoreInv, [Next]_vars
    PROVE  RestoreInv'
<1>1. ASSUME UNCHANGED restoreVars
      PROVE  RestoreInv'
    <2>1. rs' = rs /\ target' = target
        BY <1>1 DEF restoreVars
    <2>2. WriteInv => WriteInv'
        BY <2>1 DEF WriteInv, There
    <2>3. NothingSilent'
        BY <2>1 DEF RestoreInv, NothingSilent
    <2> QED
        BY <2>1, <2>2, <2>3 DEF RestoreInv, Idle
<1>2. ASSUME EndRestore
      PROVE  RestoreInv'
    BY <1>2 DEF EndRestore, RestoreInv, NothingSilent, Idle
<1>3. (\E submit, tomb \in BOOLEAN, incs \in Includes :
            Backup(submit, tomb, incs)) => UNCHANGED restoreVars
    BY DEF Backup
<1>4. Landed \/ OpenBundleFile \/ WriteBundle \/ EndBackup \/ Edit \/ UNCHANGED vars
        => UNCHANGED restoreVars
    BY DEF Landed, OpenBundleFile, WriteBundle, EndBackup, Edit, vars, restoreVars
<1> QED
    BY <1>1, <1>2, <1>3, <1>4, StartKept, CheckKept, OpenKept, WriteKept, OwnKept DEF Next

-----------------------------------------------------------------------------
(* Theorems.                                                               *)

LEMMA InitHolds == Init => IInv
<1> SUFFICES ASSUME Init
             PROVE  IInv
    OBVIOUS
<1>1. /\ ver = 1 /\ landed = <<>> /\ bundles = <<>> /\ bk = [stage |-> "idle"]
      /\ rs = [stage |-> "idle"] /\ target = [b \in Bases |-> <<>>]
    BY DEF Init, Idle
<1>2. bk.stage = "idle" /\ rs.stage = "idle" /\ Len(landed) = 0
    BY <1>1
<1>3. BackupInv
    <2>1. bundles = [x \in DOMAIN bundles |-> bundles[x]]
        BY <1>1
    <2>2. landed \in Seq(Plan)
        BY <1>1, EmptySeq
    <2> QED
        BY <1>1, <1>2, <2>1, <2>2, BoundsAssumption DEF BackupInv, Idle
<1>4. BundleFollows
    BY <1>1 DEF BundleFollows
<1>5. RestoreInv
    BY <1>1, <1>2 DEF RestoreInv, NothingSilent, Idle
<1> QED
    BY <1>3, <1>4, <1>5 DEF IInv

LEMMA Inductive == Spec => []IInv
<1>1. Init => IInv
    BY InitHolds
<1>2. IInv /\ [Next]_vars => IInv'
    BY BackupKept, RestoreKept DEF IInv
<1> QED
    BY <1>1, <1>2, PTL DEF Spec

\* Over every mix of dry runs, cut runs and edits, the bundle of a landed
\* backup is whole unless a run about that very backup was cut (doSubmit,
\* doDryRun, writeBundle).
THEOREM BundlesFollow == Spec => []BundleFollows
<1>1. IInv => BundleFollows
    BY DEF IInv
<1> QED
    BY <1>1, Inductive, PTL

\* When backup --submit has said Done, the newest backup and its bundle file
\* restore every file complete, with nothing left to do but a validator's
\* warning; or restore refuses an unsafe path (backup.Build, restore.Build).
THEOREM DoneMeansRestorable == Spec => []DoneRestores
<1>1. IInv => DoneRestores
    <2> SUFFICES ASSUME IInv, bk.stage = "done", landed # <<>>, Last(landed) = bk.plan, ~bk.plan.tomb
                 PROVE  LET r == PlanRestore([want |-> <<>>, bundle |-> <<BundlePath(bk.plan)>>,
                                              allowTomb |-> FALSE, lost |-> FALSE])
                        IN IF Safe(bk.plan)
                             THEN /\ r.exit = 0 /\ r.todo = OneHost(bk.plan)
                                  /\ r.complete = {Config} \cup bk.plan.incs
                                  /\ r.files[Config] = Whole(Config, bk.plan.ver)
                             ELSE r.exit = 3
        BY DEF DoneRestores, Safe
    <2> DEFINE flags == [want |-> <<>>, bundle |-> <<BundlePath(bk.plan)>>,
                         allowTomb |-> FALSE, lost |-> FALSE]
               c == bk.plan
    <2>1. /\ flags.want = <<>> /\ flags.bundle = <<c>> /\ flags.bundle # <<>>
          /\ flags.bundle[1] = c /\ flags.allowTomb = FALSE /\ flags.lost = FALSE
        BY DEF BundlePath
    <2>2. BackupInv
        BY DEF IInv
    <2>3. c \in Real /\ bundles[c] = <<c>>
        BY <2>2 DEF BackupInv, Real, Idle
    <2>4. Candidates[1] = c
        BY <2>2, CandidatesAre
    <2> HIDE DEF flags
    <2>5. Selected(flags) = [exit |-> 0, cand |-> c]
        BY <2>1, <2>4 DEF Selected
    <2>6. PlanCases(flags, Selected(flags), PlanRestore(flags))
        <3>1. flags.lost \in BOOLEAN
            BY <2>1
        <3> QED
            BY <3>1, PlanRestoreIs
    <2>7. PlanRestore(flags) = BuildRestore(c, OnChainEntries(c), TRUE, BundleEntries(c))
        <3>1. Selected(flags).exit = 0 /\ Selected(flags).cand = c
            BY <2>5
        <3>2. bundles[flags.bundle[1]] = <<Selected(flags).cand>>
            BY <2>1, <2>3, <3>1
        <3> QED
            BY <2>1, <2>6, <3>1, <3>2 DEF PlanCases
    <2> DEFINE r == PlanRestore(flags)
    <2>8. IF Safe(c)
            THEN /\ r.exit = 0 /\ r.todo = OneHost(c)
                 /\ r.complete = {Config} \cup c.incs
                 /\ r.files[Config] = Whole(Config, c.ver)
            ELSE r.exit = 3
        <3>1. MadeWith(c, r)
            BY <2>3, <2>7, BuildWithBundle
        <3> HIDE DEF r
        <3> QED
            BY <3>1 DEF MadeWith
    <2> QED
        BY <2>8 DEF flags
<1> QED
    BY <1>1, Inductive, PTL

\* Whatever restore cannot give back it tells, and when it says Written the
\* directory holds what the report judged (restore.Build, WriteTarget).
THEOREM ReportsAreTrue == Spec => []ReportTrue
<1>1. IInv => ReportTrue
    <2> SUFFICES ASSUME IInv
                 PROVE  ReportTrue
        OBVIOUS
    <2>1. NothingSilent
        BY DEF IInv, RestoreInv
    <2>2. WrittenIsThere
        <3> SUFFICES ASSUME rs.stage = "written", NEW p \in DOMAIN rs.plan.files
                     PROVE  target[BaseOf(p)] = <<rs.plan.files[p]>>
            BY DEF WrittenIsThere
        <3>1. WriteInv
            BY DEF IInv, RestoreInv, Idle
        <3>2. Len(rs.left) = 0
            BY <3>1 DEF WriteInv
        <3> QED
            BY <3>1, <3>2 DEF WriteInv, There
    <2> QED
        BY <2>1, <2>2 DEF ReportTrue
<1> QED
    BY <1>1, Inductive, PTL

\* Without --force restore changes no file that was in the target directory
\* when it looked, whatever others put there since (WriteTarget).
THEOREM NothingClobbered == Spec => NoClobber
<1> DEFINE Act == \A b \in Bases :
                     rs.stage # "idle" /\ ~rs.force /\ target'[b] # target[b] => b \notin rs.had
<1>1. IInv /\ [Next]_vars => [Act]_vars
    <2> SUFFICES ASSUME IInv, Next,
                        NEW b \in Bases, rs.stage # "idle", ~rs.force, target'[b] # target[b]
                 PROVE  b \notin rs.had
        OBVIOUS
    <2>0. RestoreInv
        BY DEF IInv
    <2>1. OpenTarget \/ WriteTarget \/ Own
        BY DEF Next, Backup, Landed, OpenBundleFile, WriteBundle, EndBackup, Edit,
               StartRestore, CheckTarget, EndRestore, restoreVars
    <2>2. CASE OpenTarget \/ WriteTarget
        <3>1. rs.stage \in {"write", "writing"}
            BY <2>2 DEF OpenTarget, WriteTarget
        <3>2. WriteInv /\ rs.left[1] \in DOMAIN rs.plan.files
            BY <2>0, <3>1, WritingFacts
        <3>3. b = BaseOf(rs.left[1])
            BY <2>0, <2>2 DEF OpenTarget, WriteTarget, RestoreInv
        <3> QED
            BY <3>2, <3>3 DEF WriteInv
    <2>3. CASE Own
        <3>1. target[b] = <<>>
            BY <2>0, <2>3 DEF Own, RestoreInv
        <3>2. CASE rs.stage = "ask"
            BY <2>0, <3>2 DEF RestoreInv, Idle
        <3>3. CASE rs.stage # "ask"
            <4>1. WriteInv
                BY <2>0, <3>3 DEF RestoreInv, Idle
            <4> QED
                BY <3>1, <4>1 DEF WriteInv
        <3> QED
            BY <3>2, <3>3
    <2> QED
        BY <2>1, <2>2, <2>3
<1> QED
    BY <1>1, Inductive, PTL DEF Spec, NoClobber

\* What verify fails restore fails in the same way; what verify passes restore
\* builds, complete when a bundle was named, or refuses for an unsafe path
\* (cmdVerify, cmdRestore).
THEOREM VerifyAgrees == Spec => []VerifyForetells
<1>1. IInv => VerifyForetells
    <2> SUFFICES ASSUME IInv, NEW flags \in Flags, ~flags.allowTomb
                 PROVE  LET r == PlanRestore(flags)
                            v == Verify(flags)
                            listed == Range(ManifestFiles(Selected(flags).cand))
                        IN /\ v # 0 => r.exit = v
                           /\ v = 0 =>
                                /\ r.exit = 0 \/ (r.exit = 3 /\ \E p \in listed : ~checkPath(p))
                                /\ r.exit = 0 /\ flags.bundle # <<>> => r.complete = listed
        BY DEF VerifyForetells
    <2> DEFINE s == Selected(flags)
               r == PlanRestore(flags)
               v == Verify(flags)
               listed == Range(ManifestFiles(s.cand))
               Goal == /\ v # 0 => r.exit = v
                       /\ v = 0 =>
                            /\ r.exit = 0 \/ (r.exit = 3 /\ \E p \in listed : ~checkPath(p))
                            /\ r.exit = 0 /\ flags.bundle # <<>> => r.complete = listed
    <2>1. BackupInv
        BY DEF IInv
    <2>2. GoodWant(flags)
        BY <2>1, FlagsAreGood
    <2>3. [flags EXCEPT !.allowTomb = FALSE] = flags /\ flags.lost \in BOOLEAN
        BY DEF Flags
    <2>4. v = CASE s.exit # 0 -> s.exit
                [] s.exit = 0 /\ Fetch(s.cand, flags.lost).exit # 0 -> Fetch(s.cand, flags.lost).exit
                [] OTHER -> IF flags.bundle = <<>> THEN 0 ELSE OpenBundle(s.cand, flags.bundle[1]).exit
        BY <2>3 DEF Verify
    <2> HIDE DEF s, r, v
    <2>5. PlanCases(flags, s, r)
        BY <2>3, PlanRestoreIs DEF s, r
    <2>6. ASSUME s.exit # 0
          PROVE  Goal
        <3>1. v = s.exit /\ v # 0
            BY <2>4, <2>6
        <3>2. r.exit = s.exit
            BY <2>5, <2>6 DEF PlanCases
        <3> QED
            BY <3>1, <3>2
    <2>7. ASSUME s.exit = 0 /\ flags.lost
          PROVE  Goal
        <3>1. v = 5
            BY <2>4, <2>7 DEF Fetch
        <3>2. r.exit = 5
            BY <2>5, <2>7 DEF PlanCases
        <3> QED
            BY <3>1, <3>2
    <2>8. ASSUME s.exit = 0 /\ ~flags.lost /\ flags.bundle # <<>> /\ bundles[flags.bundle[1]] # <<s.cand>>
          PROVE  Goal
        <3>1. v = 4
            BY <2>4, <2>8 DEF Fetch, OpenBundle
        <3>2. r.exit = 4
            BY <2>5, <2>8 DEF PlanCases
        <3> QED
            BY <3>1, <3>2
    <2>9. ASSUME s.exit = 0, ~flags.lost,
                 flags.bundle # <<>> => bundles[flags.bundle[1]] = <<s.cand>>
          PROVE  Goal
        <3>1. v = 0
            BY <2>4, <2>9 DEF Fetch, OpenBundle
        <3>2. s.cand \in Real
            BY <2>1, <2>2, <2>9, SelectedIs DEF s
        <3>3. ~Safe(s.cand) => \E p \in listed : ~checkPath(p)
            BY <3>2, ManifestLists DEF Safe
        <3>4. r.exit = 0 \/ (r.exit = 3 /\ ~Safe(s.cand))
            <4>1. CASE flags.bundle = <<>>
                <5>1. r = BuildRestore(s.cand, OnChainEntries(s.cand), FALSE, {})
                    BY <2>5, <2>9, <4>1 DEF PlanCases
                <5>2. MadeWithout(s.cand, r)
                    BY <3>2, <5>1, BuildWithoutBundle
                <5> QED
                    BY <5>2 DEF MadeWithout
            <4>2. CASE flags.bundle # <<>>
                <5>1. r = BuildRestore(s.cand, OnChainEntries(s.cand), TRUE, BundleEntries(s.cand))
                    BY <2>5, <2>9, <4>2 DEF PlanCases
                <5>2. MadeWith(s.cand, r)
                    BY <3>2, <5>1, BuildWithBundle
                <5> QED
                    BY <5>2 DEF MadeWith
            <4> QED
                BY <4>1, <4>2
        <3>5. r.exit = 0 /\ flags.bundle # <<>> => r.complete = listed
            BY <2>1, <2>2, ReportOf DEF r, s
        <3> HIDE DEF listed
        <3> QED
            BY <3>1, <3>3, <3>4, <3>5
    <2>10. Goal
        BY <2>3, <2>6, <2>7, <2>8, <2>9
    <2> QED
        BY <2>10, Zenon DEF r, s, v
<1> QED
    BY <1>1, Inductive, PTL

\* The backups of the ledger are pairwise different.
LEMMA LandedOnce ==
    ASSUME BackupInv, NEW k \in 1..Len(landed)
    PROVE  /\ DOMAIN landed = 1..Len(landed)
           /\ (CHOOSE i \in DOMAIN landed : landed[i] = landed[k]) = k
<1>1. DOMAIN landed = 1..Len(landed)
    BY LenProperties DEF BackupInv
<1>2. \A i \in DOMAIN landed : landed[i] = landed[k] => i = k
    BY <1>1 DEF BackupInv
<1>3. \E i \in DOMAIN landed : landed[i] = landed[k]
    BY <1>1
<1>4. (CHOOSE i \in DOMAIN landed : landed[i] = landed[k]) \in DOMAIN landed
      /\ landed[CHOOSE i \in DOMAIN landed : landed[i] = landed[k]] = landed[k]
    BY <1>3
<1> QED
    BY <1>1, <1>2, <1>4

\* restore --allow-tombstoned gives the newest real backup that landed before
\* the tombstone, also when --backup-id names an older tombstone (cmdRestore).
THEOREM TombstoneIsPassed == Spec => []OlderThanTombstone
<1>1. IInv => OlderThanTombstone
    <2> SUFFICES ASSUME IInv, NEW flags \in Flags, landed # <<>>, Selected(flags).exit = 0
                 PROVE  LET s == Selected(flags)
                            at(c) == CHOOSE i \in DOMAIN landed : landed[i] = c
                            c == IF flags.want = <<>> THEN Last(landed) ELSE flags.want[1]
                        IN /\ ~s.cand.tomb /\ at(s.cand) <= at(c)
                           /\ \A i \in (at(s.cand) + 1)..at(c) : landed[i].tomb
        BY DEF OlderThanTombstone
    <2> DEFINE s == Selected(flags)
               at(c) == CHOOSE i \in DOMAIN landed : landed[i] = c
               c0 == IF flags.want = <<>> THEN Last(landed) ELSE flags.want[1]
               N == Len(landed)
    <2>1. BackupInv
        BY DEF IInv
    <2>2. GoodWant(flags)
        BY <2>1, FlagsAreGood
    <2>3. /\ N \in Nat \ {0} /\ DOMAIN landed = 1..N /\ DOMAIN Candidates = 1..N
          /\ \A k \in 1..N : Candidates[k] = landed[N - k + 1]
          /\ Candidates[1] = Last(landed)
        BY <2>1, CandidatesAre
    <2>4. \A k \in 1..N : at(landed[k]) = k
        BY <2>1, LandedOnce
    <2>5. Named(flags) = c0
        BY <2>3 DEF Named
    <2>6. PICK n \in 1..N : c0 = landed[n]
        <3>1. CASE flags.want = <<>>
            BY <2>3, <3>1 DEF Last
        <3>2. CASE flags.want # <<>>
            BY <2>2, <3>2 DEF GoodWant
        <3> QED
            BY <3>1, <3>2
    <2>7. \/ ~c0.tomb /\ s.cand = c0
          \/ /\ c0.tomb /\ PastTombstone(c0) # {}
             /\ s.cand = Candidates[Min(PastTombstone(c0))]
        BY <2>1, <2>2, <2>5, SelectedIs
    <2>8. ~s.cand.tomb
        BY <2>1, <2>2, SelectedIs DEF Real
    <2> HIDE DEF s, at, c0, N
    <2>9. \E m \in 1..N : /\ s.cand = landed[m] /\ m <= n
                          /\ \A i \in (m + 1)..n : landed[i].tomb
        <3>1. CASE ~c0.tomb /\ s.cand = c0
            BY <2>3, <2>6, <3>1
        <3>2. CASE /\ c0.tomb /\ PastTombstone(c0) # {}
                   /\ s.cand = Candidates[Min(PastTombstone(c0))]
            <4> DEFINE P == PastTombstone(c0)
                       k == Min(P)
            <4>1. P = {x \in 1..N : ~Candidates[x].tomb /\ \E j \in 1..(x - 1) : Candidates[j] = c0}
                BY <2>3 DEF PastTombstone
            <4> HIDE DEF P
            <4>2. k \in P /\ \A y \in P : k <= y
                <5>1. P \subseteq Nat /\ P # {}
                    BY <2>3, <3>2, <4>1 DEF P
                <5> QED
                    BY <5>1, LeastIndex
            <4>3. s.cand = Candidates[k]
                BY <3>2 DEF P
            <4> HIDE DEF k
            <4>4. k \in 1..N /\ \E j \in 1..(k - 1) : Candidates[j] = c0
                BY <4>1, <4>2
            <4>5. PICK j \in 1..(k - 1) : Candidates[j] = c0
                BY <4>4
            <4>6. j \in 1..N /\ N - j + 1 \in 1..N /\ c0 = landed[N - j + 1]
                BY <2>3, <4>4, <4>5
            <4>7. n = N - j + 1
                BY <2>4, <2>6, <4>6
            <4>8. N - k + 1 \in 1..N /\ s.cand = landed[N - k + 1] /\ N - k + 1 <= n
                BY <2>3, <4>3, <4>4, <4>5, <4>7
            <4>9. ASSUME NEW i \in (N - k + 2)..n
                  PROVE  landed[i].tomb
                <5>1. /\ i \in 1..N /\ N - i + 1 \in 1..N /\ N - i + 1 < k /\ j <= N - i + 1
                      /\ N - (N - i + 1) + 1 = i
                    BY <2>3, <4>4, <4>5, <4>7
                <5>2. Candidates[N - i + 1] = landed[i]
                    BY <2>3, <5>1
                <5>3. CASE N - i + 1 = j
                    BY <3>2, <4>5, <5>2, <5>3
                <5>4. CASE j < N - i + 1
                    <6>1. N - i + 1 \notin P
                        BY <2>3, <4>2, <4>4, <5>1
                    <6>2. j \in 1..((N - i + 1) - 1)
                        BY <2>3, <4>5, <5>1, <5>4
                    <6>3. Candidates[N - i + 1].tomb
                        BY <4>1, <4>5, <5>1, <6>1, <6>2
                    <6> QED
                        BY <5>2, <6>3
                <5> QED
                    BY <2>3, <4>5, <5>1, <5>3, <5>4
            <4>10. (N - k + 1) + 1 = N - k + 2
                BY <2>3, <4>4
            <4> QED
                BY <4>8, <4>9, <4>10
        <3> QED
            BY <2>7, <3>1, <3>2
    <2>10. PICK m \in 1..N : /\ s.cand = landed[m] /\ m <= n
                             /\ \A i \in (m + 1)..n : landed[i].tomb
        BY <2>9
    <2>11. at(s.cand) = m /\ at(c0) = n
        BY <2>4, <2>6, <2>10
    <2>12. /\ ~s.cand.tomb /\ at(s.cand) <= at(c0)
           /\ \A i \in (at(s.cand) + 1)..at(c0) : landed[i].tomb
        BY <2>8, <2>10, <2>11
    <2> QED
        BY <2>12, Zenon DEF s, at, c0
<1> QED
    BY <1>1, Inductive, PTL
=============================================================================
