------------------------------ MODULE Restore ------------------------------
(***************************************************************************)
(* One host from backup to restore (cmd_backup, backup.Build, cmd_restore, *)
(* restore.Build, WriteTarget): the configuration is edited and backed up, *)
(* the bundle file is written beside the ledger's copy, and verify and     *)
(* restore put the two together and write a target directory.  Either      *)
(* command may be cut at any point, and a server may have lost chunks.     *)
(* How a backup lands is the subject of Sequential and Batched, which one  *)
(* is newest that of History and Discover.                                 *)
(*                                                                         *)
(* A backup id is a PRF of the content and the seq, and the bundle key is  *)
(* derived from it: the plan record stands for the id, and planning the    *)
(* same content with the same seq gives the same bundle bytes.             *)
(***************************************************************************)
EXTENDS Naturals, SequencesExt

CONSTANTS
    Includes,     \* sets of files the operator may --include
    Unsafe,       \* paths with a control or a bidirectional character
    Garbled,      \* paths that are not valid UTF-8
    MaxSeq,       \* bound: backups that land
    MaxEdits,     \* bound: versions of the configuration
    MaxDryRuns,   \* bound: backups without --submit
    MaxCuts,      \* bound: backups that are cut
    MaxRestores   \* bound: restores, which follow the backups

ASSUME BoundsAssumption ==
    /\ MaxSeq \in Nat /\ MaxDryRuns \in Nat /\ MaxCuts \in Nat /\ MaxRestores \in Nat
    /\ MaxEdits \in Nat \ {0}

VARIABLES
    ver,      \* version of the operator's files
    landed,   \* backups on the ledger, in the order they landed
    bundles,  \* bundle files, by path
    bk,       \* the backup command
    hurt,     \* backups of which a run was cut after it had landed or
              \* while their bundle file was being written
    rs,       \* the restore command
    target,   \* the files of the target directory, by base name
    runs      \* number of dry runs and of restores

backupVars  == <<ver, landed, bundles, bk, hurt>>
restoreVars == <<rs, target>>
vars        == <<ver, landed, bundles, bk, hurt, rs, target, runs>>

\* The config and the files an operator may --include; Twin has the base name
\* of the config, the last two are there to be unsafe.
Config == "etc/xrpld.cfg"
Extra  == "etc/extra"
Twin   == "opt/xrpld.cfg"
Odd    == "odd/extra"
Raw    == "raw/extra"
Paths  == {Config, Extra, Twin, Odd, Raw}
BaseOf(path) == IF path \in {Config, Twin} THEN "xrpld.cfg" ELSE "extra"
Bases == {"extra", "xrpld.cfg"}

ASSUME PathsAssumption ==
    Includes \subseteq SUBSET Paths /\ Unsafe \subseteq Paths /\ Garbled \subseteq Paths

\* Odd versions of the config have lines that move to the bundle; in every
\* other one of these a validator token is among them.
HasMoves(v)  == v % 2 = 1
Validator(p) == ~p.tomb /\ p.ver % 4 = 1
-----------------------------------------------------------------------------
(* backup.Build.                                                           *)

Plan == [seq : 1..(MaxSeq + 1), ver : 1..MaxEdits, tomb : BOOLEAN,
         incs : SUBSET Paths]

\* Whole content of a file, or the config with markers in place of lines.
Whole(path, v)  == [path |-> path, ver |-> v, gaps |-> FALSE]
Gapped(path, v) == [path |-> path, ver |-> v, gaps |-> TRUE]
Torn    == Gapped("torn", 0)       \* a file cut while it was written
OwnFile == Whole("another file", 0)

\* Mutant of Buildable: the same file may be named by --config and --include.
BuildableTwice(p) ==
    IF p.tomb THEN p.incs = {}
    ELSE Config \in p.incs => ~HasMoves(p.ver)

\* A tombstone takes no files; each file is named once (a config with moved
\* lines would be twice in the bundle container, which Encode refuses too).
Buildable(p) ==
    IF p.tomb THEN p.incs = {} ELSE Config \notin p.incs

\* The entries of the two containers, and the manifest's list of files.
OnChainEntries(p) ==
    IF p.tomb THEN {} ELSE {IF HasMoves(p.ver) THEN Gapped(Config, p.ver) ELSE Whole(Config, p.ver)}
BundleEntries(p) ==
    (IF HasMoves(p.ver) /\ ~p.tomb THEN {Gapped(Config, p.ver)} ELSE {})
      \cup {Whole(i, p.ver) : i \in p.incs}
ManifestFiles(p) ==
    (IF p.tomb THEN <<>> ELSE <<Config>>) \o SetToSeq(p.incs)
Redactions(p) == IF HasMoves(p.ver) /\ ~p.tomb THEN {Config} ELSE {}

\* bindPlan: the seq after the newest backup; 1 without a server.
NextSeq == IF landed = <<>> THEN 1 ELSE Last(landed).seq + 1
-----------------------------------------------------------------------------
(* The backup command.                                                     *)

Idle == [stage |-> "idle"]
Bk(stage, p) == [stage |-> stage, plan |-> p]

Backup(submit, tomb, incs) ==
    /\ bk.stage = "idle" /\ runs[2] = 0
    /\ submit \/ runs[1] < MaxDryRuns
    /\ runs' = IF submit THEN runs ELSE <<runs[1] + 1, 0>>
    /\ \E seq \in {NextSeq} \cup (IF submit THEN {} ELSE {1}) :
         LET p == [seq |-> seq, ver |-> ver, tomb |-> tomb, incs |-> incs] IN
         /\ seq <= MaxSeq
         /\ Buildable(p)
         /\ bk' = Bk(IF submit THEN "submit" ELSE "write", p)
    /\ UNCHANGED <<ver, landed, bundles, hurt, restoreVars>>

\* Submit returns: the backup has landed, or the run has failed.
Landed ==
    /\ bk.stage = "submit"
    /\ landed' = Append(landed, bk.plan)
    /\ bk' = Bk("write", bk.plan)
    /\ UNCHANGED <<ver, bundles, hurt, restoreVars, runs>>

\* Mutant of BundlePath: the file is named after the seq.
BundlePathBySeq(p) == p.seq

\* <out>/<backup id>.bundle
BundlePath(p) == p

\* writeBundle: os.WriteFile truncates, then writes.  A tombstone has none.
OpenBundleFile ==
    /\ bk.stage = "write"
    /\ IF bk.plan.tomb
         THEN bk' = Bk("done", bk.plan) /\ UNCHANGED bundles
         ELSE /\ bundles' = [x \in DOMAIN bundles \cup {BundlePath(bk.plan)} |->
                               IF x = BundlePath(bk.plan) THEN <<>> ELSE bundles[x]]
              /\ bk' = Bk("writing", bk.plan)
    /\ UNCHANGED <<ver, landed, hurt, restoreVars, runs>>
WriteBundle ==
    /\ bk.stage = "writing"
    /\ bundles' = [bundles EXCEPT ![BundlePath(bk.plan)] = <<bk.plan>>]
    /\ bk' = Bk("done", bk.plan)
    /\ UNCHANGED <<ver, landed, hurt, restoreVars, runs>>

\* The command ends, fails or is cut, wherever it is.
EndBackup ==
    /\ bk.stage # "idle"
    /\ bk.stage \in {"write", "writing"} => Cardinality(hurt) < MaxCuts
    /\ hurt' = IF bk.stage \in {"write", "writing"} THEN hurt \cup {bk.plan} ELSE hurt
    /\ bk' = Idle
    /\ UNCHANGED <<ver, landed, bundles, restoreVars, runs>>

Edit ==
    /\ ver < MaxEdits /\ runs[2] = 0 /\ ver' = ver + 1
    /\ UNCHANGED <<landed, bundles, bk, hurt, restoreVars, runs>>
-----------------------------------------------------------------------------
(* discover.Fetch, discover.OpenBundle and restore.Build.                  *)

Flags == [want : {<<>>} \cup {<<landed[i]>> : i \in DOMAIN landed},
          bundle : {<<>>} \cup {<<x>> : x \in DOMAIN bundles},
          allowTomb : BOOLEAN,
          lost : BOOLEAN]   \* the server no longer has a chunk of it

\* Candidates are sorted newest first.
Candidates == Reverse(landed)

\* Mutant of PastTombstone: the scan does not skip what is newer.
PastTombstoneFromTop(tomb) == {k \in DOMAIN Candidates : ~Candidates[k].tomb}

\* The real backups after the tombstone in that order; the loop takes the
\* first of them.
PastTombstone(tomb) ==
    {k \in DOMAIN Candidates : ~Candidates[k].tomb /\ \E j \in 1..(k - 1) : Candidates[j] = tomb}

\* choose, then the tombstone rule of restore: a backup or an exit code.
Selected(flags) ==
    IF landed = <<>> THEN [exit |-> 4]
    ELSE LET c == IF flags.want = <<>> THEN Candidates[1] ELSE flags.want[1]
         IN CASE ~c.tomb -> [exit |-> 0, cand |-> c]
              [] c.tomb /\ ~flags.allowTomb -> [exit |-> 5]
              [] OTHER -> IF PastTombstone(c) = {} THEN [exit |-> 5]
                          ELSE [exit |-> 0, cand |-> Candidates[Min(PastTombstone(c))]]

Fetch(c, lost) == IF lost THEN [exit |-> 5] ELSE [exit |-> 0, entries |-> OnChainEntries(c)]

\* Mutant of OpenBundle: any whole bundle will do.
OpenBundleAny(c, path) ==
    IF bundles[path] = <<>> THEN [exit |-> 4]
    ELSE [exit |-> 0, entries |-> BundleEntries(bundles[path][1])]

\* The id in the header, the hash in the manifest and every frame must agree:
\* a torn file and one of another backup are refused.
OpenBundle(c, path) ==
    IF bundles[path] = <<c>> THEN [exit |-> 0, entries |-> BundleEntries(c)] ELSE [exit |-> 4]

\* What a path restores to: merged, on-chain alone, or from the bundle.
Recovered(c, entries, bundle) ==
    LET data(path) ==
          IF path \in {e.path : e \in entries}
            THEN LET e == CHOOSE e \in entries : e.path = path
                 IN IF \E b \in bundle : b = e /\ e.gaps THEN Whole(path, c.ver) ELSE e
            ELSE CHOOSE b \in bundle : b.path = path
        found == {e.path : e \in entries \cup bundle}
    IN [path \in found |-> data(path)]

\* What is always left for the operator of a validator.
OneHost(c) == IF Validator(c) THEN {<<"one host", Config>>} ELSE {}

\* Mutant of Todo: only what was not recovered at all is listed.
TodoMissingOnly(c, given, files) ==
    {<<"recover", p>> : p \in Range(ManifestFiles(c)) \ DOMAIN files} \cup OneHost(c)

\* What is left for the operator: files not recovered and, without a bundle,
\* every redaction and a validator's token.
Todo(c, given, files) ==
    {<<"recover", p>> : p \in Range(ManifestFiles(c)) \ DOMAIN files}
      \cup (IF given THEN {} ELSE {<<"re-enter", p>> : p \in Redactions(c)})
      \cup (IF ~given /\ Redactions(c) # {} /\ Validator(c) THEN {<<"token", Config>>} ELSE {})
      \cup OneHost(c)

\* checkPath on the path of an entry, and on the path the manifest lists.
\* JSON replaces the invalid bytes of a garbled path, so that the name in the
\* manifest passes where the entry's own path does not.
checkPath(p)   == p \notin Unsafe \cup Garbled
checkListed(p) == p \notin Unsafe

\* Mutant of BuildRefused: the entries' own paths are taken on trust.
BuildRefusedListed(c, entries) ==
    LET files == ManifestFiles(c) IN
    \/ \E i \in DOMAIN files : ~checkListed(files[i])
    \/ \E i, j \in DOMAIN files : i # j /\ files[i] = files[j]
    \/ \E e \in entries : e.path \notin Range(files)

\* restore.Build refuses an unsafe path, a path listed twice, and an entry the
\* manifest does not list.
BuildRefused(c, entries) ==
    LET files == ManifestFiles(c) IN
    \/ \E i \in DOMAIN files : ~checkListed(files[i])
    \/ \E i, j \in DOMAIN files : i # j /\ files[i] = files[j]
    \/ \E e \in entries : ~checkPath(e.path) \/ e.path \notin Range(files)

BuildRestore(c, entries, given, bundle) ==
    LET files == Recovered(c, entries, bundle)
    IN IF BuildRefused(c, entries \cup bundle)
         THEN [exit |-> 3]
         ELSE [exit |-> 0, cand |-> c, files |-> files, todo |-> Todo(c, given, files),
               complete |-> {p \in DOMAIN files : files[p] = Whole(p, c.ver)}]

\* restore up to the file report: a plan, or the exit code.
PlanRestore(flags) ==
    LET s == Selected(flags)
        f == Fetch(s.cand, flags.lost)
        b == IF flags.bundle = <<>> THEN [exit |-> 0, entries |-> {}]
             ELSE OpenBundle(s.cand, flags.bundle[1])
    IN CASE s.exit # 0 -> s
         [] s.exit = 0 /\ f.exit # 0 -> f
         [] s.exit = 0 /\ f.exit = 0 /\ b.exit # 0 -> b
         [] OTHER -> BuildRestore(s.cand, f.entries, flags.bundle # <<>>, b.entries)

\* verify: the same choice, the chunks, and the bundle when one is named.
Verify(flags) ==
    LET s == Selected([flags EXCEPT !.allowTomb = FALSE])
    IN CASE s.exit # 0 -> s.exit
         [] s.exit = 0 /\ Fetch(s.cand, flags.lost).exit # 0 -> Fetch(s.cand, flags.lost).exit
         [] OTHER -> IF flags.bundle = <<>> THEN 0 ELSE OpenBundle(s.cand, flags.bundle[1]).exit
-----------------------------------------------------------------------------
(* The restore command, from the report on.  The host runs one command at  *)
(* a time; what an overlap could show, a torn bundle, a cut run shows too. *)

StartRestore ==
    /\ rs.stage = "idle" /\ bk.stage = "idle" /\ runs[2] < MaxRestores
    /\ runs' = <<runs[1], runs[2] + 1>>
    /\ \E r \in {PlanRestore(flags) : flags \in Flags}, force \in BOOLEAN :
         /\ r.exit = 0
         /\ rs' = [stage |-> "ask", plan |-> r, force |-> force, had |-> {}, left |-> <<>>]
    /\ UNCHANGED <<backupVars, target>>

\* Mutant of Clear: two files may have one base name.
ClearTwins(files, force) == \A p \in DOMAIN files : force \/ target[BaseOf(p)] = <<>>

\* Mutant of Clear: an existing file is not looked for.
ClearAnyway(files, force) == \A p, q \in DOMAIN files : BaseOf(p) = BaseOf(q) => p = q

\* The first loop of WriteTarget: paths are safe, base names distinct and,
\* without --force, free.
Clear(files, force) ==
    /\ \A p \in DOMAIN files : checkPath(p)
    /\ \A p, q \in DOMAIN files : BaseOf(p) = BaseOf(q) => p = q
    /\ \A p \in DOMAIN files : force \/ target[BaseOf(p)] = <<>>

CheckTarget ==
    /\ rs.stage = "ask"
    /\ Clear(rs.plan.files, rs.force)
    /\ rs' = [rs EXCEPT !.stage = "write", !.left = SetToSeq(DOMAIN rs.plan.files),
                        !.had = {b \in Bases : target[b] # <<>>}]
    /\ UNCHANGED <<backupVars, target, runs>>

\* The second loop: each file is truncated, then written.
OpenTarget ==
    /\ rs.stage = "write"
    /\ target' = [target EXCEPT ![BaseOf(rs.left[1])] = <<Torn>>]
    /\ rs' = [rs EXCEPT !.stage = "writing"]
    /\ UNCHANGED <<backupVars, runs>>
WriteTarget ==
    /\ rs.stage = "writing"
    /\ target' = [target EXCEPT ![BaseOf(rs.left[1])] = <<rs.plan.files[rs.left[1]]>>]
    /\ rs' = [rs EXCEPT !.stage = IF Len(rs.left) = 1 THEN "written" ELSE "write", !.left = Tail(@)]
    /\ UNCHANGED <<backupVars, runs>>

\* The command ends: it was a dry run or refused, has failed, is cut or done.
EndRestore ==
    /\ rs.stage # "idle"
    /\ rs' = Idle
    /\ UNCHANGED <<backupVars, target, runs>>

\* Another program puts a file of its own into the target directory, before
\* the check or after it.
Own ==
    /\ rs.stage \in {"ask", "write", "writing"}
    /\ \E b \in Bases : target[b] = <<>> /\ target' = [target EXCEPT ![b] = <<OwnFile>>]
    /\ UNCHANGED <<backupVars, rs, runs>>

Init ==
    /\ ver = 1 /\ landed = <<>> /\ bundles = <<>> /\ bk = Idle /\ hurt = {}
    /\ rs = Idle /\ target = [b \in Bases |-> <<>>] /\ runs = <<0, 0>>

Next ==
    \/ \E submit, tomb \in BOOLEAN, incs \in Includes : Backup(submit, tomb, incs)
    \/ Landed \/ OpenBundleFile \/ WriteBundle \/ EndBackup \/ Edit
    \/ StartRestore \/ CheckTarget \/ OpenTarget \/ WriteTarget \/ EndRestore \/ Own

Spec == Init /\ [][Next]_vars

\* What the last restore does next depends on the restore and the target alone.
View == IF runs[2] = MaxRestores THEN <<rs, target>> ELSE vars
-----------------------------------------------------------------------------
\* The bundle of a landed backup is whole on disk: only a run about that very
\* backup, cut between its landing and the end of the write, leaves it
\* missing or torn.  No other run, dry or not, of any other content, touches
\* it (doSubmit, doDryRun, writeBundle).
BundleFollows ==
    \A i \in DOMAIN landed :
        LET p == landed[i] IN
        \/ p.tomb \/ p \in hurt
        \/ bk.stage \in {"write", "writing"} /\ bk.plan = p
        \/ BundlePath(p) \in DOMAIN bundles /\ bundles[BundlePath(p)] = <<p>>

\* When backup --submit says Done, the newest backup and the bundle it named
\* restore every file of the manifest, complete and with nothing left to do
\* by hand but to stop a validator's old host; and when one of the paths is
\* unsafe, restore refuses the backup (backup.Build, restore.Build).
DoneRestores ==
    bk.stage = "done" /\ landed # <<>> /\ Last(landed) = bk.plan /\ ~bk.plan.tomb =>
        LET r == PlanRestore([want |-> <<>>, bundle |-> <<BundlePath(bk.plan)>>, allowTomb |-> FALSE,
                         lost |-> FALSE])
            named == {Config} \cup bk.plan.incs
        IN IF \A p \in named : checkPath(p)
             THEN /\ r.exit = 0 /\ r.todo = OneHost(bk.plan)
                  /\ r.complete = named
                  /\ r.files[Config] = Whole(Config, bk.plan.ver)
             ELSE r.exit = 3

\* Whatever restore cannot give back it tells: each file of the manifest is
\* complete, or it is in the list of things to do (checkComplete, Todo).
NothingSilent ==
    rs.stage # "idle" =>
        \A p \in Range(ManifestFiles(rs.plan.cand)) :
            p \in rs.plan.complete \/ {<<"recover", p>>, <<"re-enter", p>>} \cap rs.plan.todo # {}

\* verify and restore agree but for paths: what verify fails restore fails in
\* the same way; what it passes restore builds, complete if a bundle is given,
\* or refuses for an unsafe path, which readFile of backup lets in and verify
\* does not look at (cmdVerify, cmdRestore, checkPath).
VerifyForetells ==
    rs.stage = "idle" /\ bk.stage = "idle" => \A flags \in {f \in Flags : ~f.allowTomb} :
        LET r == PlanRestore(flags)
            v == Verify(flags)
            listed == Range(ManifestFiles(Selected(flags).cand))
        IN /\ v # 0 => r.exit = v
           /\ v = 0 =>
                /\ r.exit = 0 \/ (r.exit = 3 /\ \E p \in listed : ~checkPath(p))
                /\ r.exit = 0 /\ flags.bundle # <<>> => r.complete = listed

\* A backup given for a tombstone is the newest real one that landed before
\* it, also when --backup-id names an older tombstone; the bundle and what the
\* server holds have no part in the choice (cmdRestore).
OlderThanTombstone ==
    rs.stage = "idle" /\ bk.stage = "idle" =>
      \A flags \in {f \in Flags : f.bundle = <<>> /\ ~f.lost} :
        LET s == Selected(flags)
            at(c) == CHOOSE i \in DOMAIN landed : landed[i] = c
            c == IF flags.want = <<>> THEN Last(landed) ELSE flags.want[1]
        IN landed # <<>> /\ s.exit = 0 =>
             /\ ~s.cand.tomb /\ at(s.cand) <= at(c)
             /\ \A i \in (at(s.cand) + 1)..at(c) : landed[i].tomb

\* Without --force no file that was in the target when it was checked is
\* changed (WriteTarget).
NoClobber ==
    [][\A b \in Bases :
          rs.stage # "idle" /\ ~rs.force /\ target'[b] # target[b] => b \notin rs.had]_vars

\* When restore says Written, the directory has every file of the plan with
\* the content the report judged (WriteTarget).
WrittenIsThere ==
    rs.stage = "written" =>
        \A p \in DOMAIN rs.plan.files : target[BaseOf(p)] = <<rs.plan.files[p]>>

\* The report of restore is true, before and after it has written
\* (restore.Build, WriteTarget).
ReportTrue == NothingSilent /\ WrittenIsThere
=============================================================================
