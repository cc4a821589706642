# A formal model of xrplbak

xrplbak backs up the configuration of an XRP Ledger validator to the ledger
itself. A backup is a set of transactions of one *writer account*: chunks of
an encrypted container, the parts of an encrypted manifest that names the
chunks by transaction hash, and an authenticated *anchor* in the account's DID
entry that names the manifest. What must not go public goes into a bundle file
beside it. A dump file records every transaction of a run, to resume from and
to restore from offline.

This directory holds TLA+ models of the parts that keep state, TLC
configurations that check them on small instances, and TLAPS proofs for every
size.

## Inventory

| Component | State | Operations | What is hard |
|---|---|---|---|
| `backup.Submitter.send` (backup.go) | sequence, attempt and poll counters, last transaction, dump | attempt, submit, poll, record | replies get lost, a transaction lands late or between two calls, retries overlap |
| `Submitter.Submit`, `DeleteAnchor` (backup.go, dump.go) | ledger, DID entry, dump file, chunk names, manifest nonce | resume scan, chunk loop, manifest, anchor, delete, saves | a crash between any two steps, a torn save, a resume on another network |
| `submitBatched`, `sendBatch` (batch.go) | the same, plus the group loop | four layouts, inner look-up | all-or-nothing groups, resume into the middle of a layout |
| `BaseFees`, `splitBatches` (batch.go), the projected manifest (backup.go) | none | arithmetic | group sizes at the limits; a manifest that grows when its chunks land |
| `discover.Run`, `choose`, `NextSeq` (discover.go, cmd_restore.go, backup.go) | manifests found, anchor, candidate list | read anchor, scan, probe epochs, select, next seq | anchor and history are read at two moments; pruned history; other hosts; rotation |
| `init`, `init --rotate` (cmd_init.go) | key file, moved-aside copies, recovery words, interrupt guard | create, rotate, move aside | crash between remove and write, two processes, Ctrl-C |
| `backup` command, `backup.Build` (cmd_backup.go, backup.go) | plan, bundle file | dry run, submit, write the bundle | the bundle is written after the anchor; same content gives the same file name |
| `discover.Fetch`, `OpenBundle`, `restore.Build`, `WriteTarget`, `verify` | plan, target directory | choose, fetch, open, merge, check, write | lost chunks, a torn or foreign bundle, tombstones, a write cut after some files |
| `pubattest`, `attest-key`, `attest-verify` | delegations and attestations on the ledger, attestation key file | generate, delegate, attest, evaluate | order on the ledger, replaced keys, two hosts, history that is not all there |
| `redact`, `cfg` | none | parse, split, merge, render | nothing private on-chain, merge gives the original back, odd line ends |
| container, bundle stream, chunk (container, aead.go, chunk) | none | encode, decode, pad, seal, open | lengths, damaged streams |
| manifest, anchor encodings | none | encode, decode | |
| crypto (keys, words, shares, key file bytes) | none | derive, split, join | |
| codec (codec, batch.go there) | none | serialise, hash, read back | canonical order, large field codes, length prefixes |
| sign, rpc | none | sign, call | what an answer lets the caller conclude |

Interactions: the CLI binds a plan (`bindPlan` asks `NextSeq`, which runs
discovery), builds it, loads a dump of the same backup id and calls `Submit`;
`Submit` calls `send` or `sendBatch` for every transaction and rewrites the dump
after each; `backup` then writes the bundle file; `restore` runs discovery, reads
the chunks the chosen manifest names, opens the bundle, merges the two and
writes a target directory. Attestations travel as memos of the anchor
transaction and are judged from the account's history. The only concurrency
inside a process is the interrupt guard of `init`;
all other concurrency is with the network, with other runs and other hosts of
the same account, and with crashes.

What makes each component correct:

- *send*: whatever the network loses, delays or repeats, a call only ever
  reports success for a transaction that validated and is recorded, every
  attempt competes for one account sequence, and the call returns.
- *Submit*: the DID entry never names a backup that is not whole on the
  ledger; a dump of a successful run restores without a server; a re-run
  finishes what a crash cut short; a deleted anchor stays deleted.
- *submitBatched*: the same, and no complete manifest is ever on the ledger
  without its anchor; every Batch is one rippled accepts; the forecast fee is
  the fee paid.
- *NextSeq, doSubmit*: nothing older lands on top of a newer backup, also when
  an interrupted run's transactions land late; a backup reported done stands.
- *discovery*: the newest backup in reach is taken or the tool refuses, never
  an older one in silence; the search ends.
- *init*: no key file is ever lost, names tell the truth, one Ctrl-C does not
  void the words, what is said about the words is true.
- *backup, restore*: a backup that was reported done restores whole; what is
  missing is told; verify and restore agree; nothing is overwritten unasked.
- *attestations*: the verdict means what it says to a third party, is final,
  and what `backup` publishes reads as valid.
- *redact*: nothing private stays in the on-chain part, a restore without the
  bundle still boots and is never mistaken for the whole file, and merge gives
  the operator's bytes back.
- *encodings*: what is written is read back, for every length and in every
  order, and damage is refused; every transaction is one rippled accepts.

## Modules

| Module | Models | EXTENDS | Proofs |
|---|---|---|---|
| `Delivery` | what one call of `send` or `sendBatch` promises (abstract) | | |
| `Send` | the attempt and poll loops of `send`, one step per RPC | (INSTANCE Delivery) | `SendProofs` |
| `Submitter` | state and steps both submit paths share: resume scan, faults, network | `Delivery` | |
| `Sequential` | `Submit` and `DeleteAnchor`, one transaction at a time | `Submitter` | `SequentialProofs` |
| `Batched` | `submitBatched`, `sendAnchor`, `finishBatched` | `Submitter`, `BatchLayout` | `BatchedProofs` |
| `BatchLayout` | `splitBatches` | | `BatchLayoutProofs` |
| `Encoding` | sizes: blocks, length prefixes, memos, manifest parts | | `ContentProofs` |
| `BatchFees` | `BaseFees`, the projected manifest, and what a run then sends and pays | `BatchLayout`, `Encoding` | `ContentProofs` |
| `History` | the backups of one account over time: `NextSeq`, plans, re-runs, rotation, several hosts | | `DiscoverProofs` |
| `Discover` (`MCDiscover`: symmetry) | `discover.Run` and `choose` | `History` | `DiscoverProofs` |
| `KeyInit` | control of `init`: re-entry check, Ctrl-C guard | | `KeyFilesProofs` |
| `KeyFiles` | the key file under `init` and `init --rotate`, one step per system call | `KeyInit` | `KeyFilesProofs` |
| `Restore` | one host from `backup` to `verify` and `restore --write` | | `RestoreProofs` |
| `Attest` | attestations of several hosts on one account, and how they are judged | | `ContentProofs` |
| `Redact` | config parsing, `Split`, `Render`, `Merge` | | `ContentProofs` |
| `Formats` | the container of files and the bundle stream | | |
| `Codec` | transactions in binary form, and back | `BatchLayout`, `Encoding` | |
| `MCPlan` | the pure parts together, for TLC | `Redact`, `BatchFees`, `Formats`, `Codec` | |

### Delivery, Send

A *transmission* is a set of transactions that land together or not at all: a
singleton for `send`, the inner transactions of a Batch for `sendBatch`. Every
attempt reads the account sequence from the last validated ledger
(backup.go 551-556), so all transmissions that can still land compete for the
same number. `Delivery` keeps exactly that: `flight` is the set of competitors,
`Land` puts one on the ledger and empties it, `Void` empties it (a tec result,
another transaction of the account, a failed inner transaction). `Transmit`,
`Confirm` and `GiveUp` are the process's side.

`Send` is the loop as written: `ServerInfo`, `AccountInfo`, `Submit`, `PollTx`,
`Expired`, `PollAgain`, each a step, each answer possibly lost, ledgers closing
between any two, crashes and further calls. Its property `Delivers` is the
refinement: under the mapping given there every step of the loop is a step of
`Delivery` or changes nothing `Delivery` sees. The upper models are built on
`Delivery` and so need no polling.

### Submitter, Sequential, Batched

Variables: `chain` (the ledger), `flight`, `did` (the DID entry), `dump` and
`dumpDID` (the dump file), `found` (what the resume scan accepted), `names`
(chunk hashes in the manifest), `nonce`, `mhash`, the loop index `i` and the
stage `pc`. A hash is a transmission number with kind and index; a sealed
manifest is its nonce prefix and the chunks it names.

`Start` is the head of `Submit`: it takes what the dump file holds, drops what
is not on this ledger and enters the chunk loop. The faults are those the code
meets: `Abort` (crash or error anywhere), `Exhausted` (three attempts used up),
`TornSave` (`Save` cut short, the file no longer loads), `SwitchNetwork` (the
dump comes from another network or a reset one), `NetworkVoid`, and for Batches
`InnerLookupFails`. `NetworkLand` may happen at any time, also after the run
that sent the transmission is gone. A resumed run in these two modules writes
the same plan; a re-run of the *command* may plan something else, which is the
subject of `History` (see the observations).

### History, Discover

A backup is (configuration, epoch, seq), which fixes its id. Hosts hold copies
of one key file, plan with `NextSeq` (or `--force-seq`), land manifest and
anchor separately or in one Batch, are interrupted, rotate. How the manifest
gets there is Sequential's and Batched's business; here it lands in one step.
`Servers` are the servers one may ask, by the oldest ledger they still hold.
The reader of `Discover` takes the anchor (`ReadAnchor`), then the history
(`Scan`), and hosts write in between; then it widens the epoch search (`Widen`)
and selects (`Select`). Nothing reads the ledger after the scan, so writing
stops there. `Events` names the kinds of events a configuration allows.

### KeyInit, KeyFiles

`KeyInit` has the two goroutines of `init`, the signal channel of capacity one,
`signal.Notify` and `release`. `KeyFiles` adds the directory (names to files,
files to contents, so a hard link is two names of one file) and the system
calls `Stat`, `WriteFile` (truncate, then write), `Link` and `Remove`. `Crash`
cuts a rotation off between any two calls, and lets `init`'s own calls fail;
`PutBack` is an operator who copies an old key file back after a failure.

### Restore

One host. The configuration is edited (`ver`), backed up with and without
`--submit`, or given a tombstone; `landed` is what is on the ledger, `bundles`
the bundle files by path, `bk` the backup command and `rs` the restore command.
A backup id is a PRF of content and seq, so the plan record stands for it: the
same content planned with the same seq is the same backup, with the same file
name and the same bundle bytes. `OpenBundleFile`/`WriteBundle` and
`OpenTarget`/`WriteTarget` are the two halves of `os.WriteFile`. `EndBackup` and
`EndRestore` end the command wherever it is, so a cut is possible at any point;
`hurt` remembers the backups a cut may have left without a bundle. `PlanRestore`
is `restore` up to its report (`Selected`, `Fetch`, `OpenBundle`,
`BuildRestore`), with the exit code of each way out; `Verify` is `verify`. Of a path
the model knows its base name and whether restore's `checkPath` takes it: `Unsafe`
paths have a control or bidirectional character, `Garbled` ones are not UTF-8, which
the manifest's JSON hides (`checkListed`) and the container does not. The
ways to call the two (`--backup-id`, `--bundle`, `--allow-tombstoned`, a server
that lost a chunk) are `Flags`. Which candidate is the newest is `Discover`'s
subject.

### Attest

`txs` is the account's history with the memos of its transactions, `keyfile` each
host's attestation key, `run` the anchor transaction in flight. `AttestKey` and
`MoveAway` are the key file's life, `SubmitDelegated` and `SubmitMaster` the two
ways `backup --submit` attests: the history is read and judged (`Acceptable`),
then the operator is asked, then the anchor is sent, and anything may land
before it does (`Land`, `Drop`). `Stray` is a transaction that must not count
(failed, or of another account), `PostDelegation` a delegation the master key
signed for later use. `Evaluate` is translated step by step; `VouchedFor`
compares it with a definition in terms of who signed what and when. Signatures
are ideal: a signature is the pair of key and message.

### Redact, Formats, Codec, Encoding, BatchFees, MCPlan

`Redact` takes a text as a sequence of symbols, one per outcome the scanners
tell apart: line feed, carriage return, space, `#`, a literal `\#`, words that a
regular expression matches or not, stanza headers of every class of names, and
the markers the tool itself writes. `Parse`, `Split`, `Render` and `Merge` are
operators on such texts, and a behaviour types a text symbol by symbol. The scan of
`splitLines` is a recursive function over the symbols (`AddSymbol` joins a line feed
to the carriage return before it), and what a stanza or a bundle holds is given by
the places it is taken from (`Those`).

`Formats` has `Encode`/`Decode` and the framed stream: a frame opens only with
the id, index and final flag it was sealed with, and actions cut, drop, repeat,
swap and damage frames. `Codec` writes and reads the four transaction types and
the inner transactions of a Batch as sequences of fields; headers and length
prefixes are computed as the code does. `Encoding` is arithmetic on lengths.
`BatchFees` walks the transactions of a fresh batched run; between plan and
manifest each chunk's ledger number may grow by up to nine digits, which is what
`projectedManifestParts` provides for. `MCPlan` gives each of them a topic: they
share no state and a behaviour is about one.

## Runs

| Run | Bounds | Checks |
|---|---|---|
| `send` | 3 attempts (as in the code), 2 polls (45), window 1 (20), 3 ledgers, 2 calls | `Delivers`, `Terminates` |
| `sequential` | 2 chunks, 2 parts, 3 attempts, 3 faults | `TypeOK`, `Consistent` (with `AnchorSound` in it), `EventuallyDone` |
| `sequential_delete` | tombstone (0 chunks, 1 part), 3 attempts, 3 faults | `DeleteHolds` |
| `batched` | 2 chunks, 3 parts, Batches of 3, 3 attempts, 3 faults | `AnchorSound`, `DumpSufficient`, `NoUnanchoredManifest`, `EventuallyDone` |
| `batched_whole` | 2 chunks, 1 part, Batches of 4: everything in one Batch | `AnchorSound`, `NoUnanchoredManifest` |
| `discover` | 2 hosts, 2 configurations, 2 epochs, 3 ledgers, window 1 | `NewestChosen`, `AnchorHonoured` |
| `discover_one` | 1 host, 1 configuration, 3 epochs, 2 seqs, 4 ledgers, late landings | `NewestChosen`, `StaleKeyTold`, `DoneStands`, `NeverOlder`, `SearchEnds` |
| `key_files` | 2 words, 2 tries, 3 presses; 3 epochs, 2 names each, 6 files, 4 cut-offs | `KeyKept`, `AsideNamed`, `OnePressSurvives`, `InitEnds` |
| `history_pruned` | 1 host, 1 epoch, 2 seqs, 4 ledgers | `Supersedes` fails |
| `plan` | texts of any 4 layout symbols, lines of any 2 words under every header; every length up to 12600; 8 chunks, 16 parts, 8 per Batch (the code's limits); 3 entries, 3 faults | the eight properties below |
| `attest` | 2 hosts, 1 validator key, 2 attestation keys, dseq to 2, 3 transactions, 1 of them noise | `VerdictMeans`, `PublishedValid`, `VerdictSettled` |
| `restore` | 3 backups that land, 2 versions, 4 files to include (one unsafe, one not UTF-8), 1 dry run, 1 cut, 1 restore | `BundleFollows`, `DoneRestores`, `ReportTrue`, `VerifyForetells`, `OlderThanTombstone`, `NoClobber` |

What `plan` checks, by module:

- `Redact`: `RoundTrip` (the operator's bytes come back), `NothingPrivate` (the
  ledger document, read again, shows nothing a scanner objects to),
  `GapsHarmless` (without the bundle every stanza has exactly the settings that
  did not move, and such a file is not backed up as whole).
- `Encoding`: `SizesAgree` (padding, length prefixes, memos).
- `BatchFees`: `RunAsPlanned` (every Batch is one rippled accepts, and the price
  is the forecast), `ManifestFits` (an accepted plan is not refused once its
  chunks are paid for).
- `Formats`: `FilesWhole` (the order of files does not matter, damage is
  refused, a bundle opens to all of its text or not at all).
- `Codec`: `LedgerReads` (fields in canonical order, read back as written, also
  the inner hashes the manifest names in advance).

Properties that are conjunctions have named parts, each with its own comment:
`AnchorHonoured` (`NotOlderThanAnchor`, `AnchorFound`), `VerdictMeans`
(`VouchedFor`, `PrunedExplained`), `ReportTrue` (`NothingSilent`,
`WrittenIsThere`), and those of `plan`. `TypeOK` of `Send`, `Discover` and
`KeyFiles` describes their state; TLC agrees with it at the bounds above.

Why the bounds are enough. Two chunks and two parts distinguish first, last and
"some but not all"; three faults allow a crash, a late landing of what it left
and a second crash of the resumed run. In `send` a window of one ledger and
three ledgers make expiry, late validation and a sequence used by something
else all happen within three attempts, and two calls let an earlier call's
transaction land in a later one. `batched` has a chunk Batch and two tail
groups, the first without the anchor. In `discover` two hosts can be an epoch
apart, collide on one (epoch, seq), be interrupted and land late before and
between the two reads; `discover_one` has an epoch the first pass does not
reach, so the search has to widen, and room for what a cut run sent to land before,
during and after the run that follows it. In `key_files` the third cut-off meets a
name that two earlier ones have taken and the fourth the end of the names.
In `plan` four symbols are enough for
every neighbourhood of header, setting, comment and odd line end, and two words
with a comment sign for every outcome of the scanners under each kind of header;
12600 passes the largest
three-byte boundary of the length prefix (12480) and twelve blocks; `Slacks` holds
the room left in the last manifest part at which the projection changes. In
`attest` three transactions are a delegation, its replacement and an attestation
in any order, and the third is the noise or the other host's. In `restore` three
backups are a real one, a tombstone and a second one, in any order, of which one
may be cut; the first version of the configuration is that of a validator (moved
lines and a token), the second has no moved lines.

Reductions. `attest` and `discover` permute hosts and keys, which no definition
orders. `restore` uses a `VIEW`: once the last restore runs, no backup follows,
and what it does depends on `rs` and `target` alone, while every other property
was checked in the state it started from.

Every run ends by itself once its bounds are used up, so deadlock is not an
error in them.

Fairness. `send`: a process that runs takes its steps (`WF` of `Step`); nothing
is assumed of the network, which may stop closing ledgers: `Terminates` rests
on the loop bounds. `Sequential`, `Batched`: the process takes its steps, the
operator runs the command again after a failure, and a transmission that can
land does (`WF` of `NetworkLand`); the code's own message tells the operator
to re-run, and faults are bounded. `Discover`: a reader that has started takes
its steps. `KeyFiles`: the operator answers or closes the input, and both
goroutines are scheduled.

### Findings

- `history_pruned`. `NextSeq` looks only at the manifests the server still
  holds. The verified anchor carries epoch and seq of the newest backup, but is
  not used, and `AnchorMissing` is not consulted, so on a server without the
  newest backups (docs/mainnet-assumptions.md: "default servers keep about 15
  minutes of ledgers") the next backup gets a seq that is taken or lower.

### Observations

Seen while modelling; the models contain the behaviour, and the properties
above hold in spite of it. In the first two the code does not do what its words say.

- "Re-run the same command to resume" (cmd_backup.go 377) and "a resumed run reuses
  the manifest already on the ledger instead of sealing again" (docs/wire-format.md
  28) hold until the manifest has landed. When it has and the anchor has not,
  `NextSeq` counts it: the re-run plans the next seq, hence another id and another
  dump file, and sends and pays for everything again (`Plan` in `History`). The
  tests resume by calling `Submit` with the same plan, which the command then does
  not do. No property says that a re-run resumes; `DoneStands` says that what the
  first run left in flight cannot displace the second.
- "checkPath accepts only what backup itself writes" (restore.go 164), but `backup`
  takes a file of any name (backup.go 247-268). One with a control or bidirectional
  character, or with bytes that are not UTF-8, is backed up, reported done and
  passed by `verify`, which checks no path; `restore` refuses the whole backup with
  exit 3. `DoneRestores` and `VerifyForetells` state this case as it is.
- "Stopped. Nothing was saved" (cmd_init.go 320) can be printed by a second
  Ctrl-C that arrives after `os.WriteFile` and before `release`.
- A backup that landed but was cut before its bundle was written needs the same
  content at the same seq to get its bundle; a re-run takes the next seq and
  writes that one's. A dry run without `--rpc` plans seq 1 and rewrites the
  bundle of the first backup with the same bytes (`BundleFollows`).
- Two files with one base name are backed up, and refused by `restore --write`
  (`Clear`). A restore cut while writing leaves a torn file, and the next one
  needs `--force`.
- `WriteTarget` checks all names and then writes: a file that appears in between
  is truncated (restore.go 261). `NoClobber` speaks of the files that were there
  at the check.
- "onchain (bundle missing)" in the report looks for the line marker only
  (restore.go 103); the to-do list names the file in every case
  (`NothingSilent`).
- Of two hosts, one can replace the key while the other is at its prompt: the
  attestation then lands after the delegation that retires its key and reads as
  invalid. A server that dropped the delegation has the same effect.
  `PublishedValid` allows exactly these (`unseen`).
- Header lines are never scanned: a private word inside brackets goes on the
  ledger. A comment behind a header (`[server] # ...`) stays there too, since the
  line reads differently without it.
- The comment of `container.Pack` says that 1 to BlockLen bytes are added; it is 2
  to BlockLen + 1. The error of `Build` for too many chunks names a flag
  `--bundle-stanza` that does not exist (backup.go 181).
- The poll asks `tx` first and `server_info` second (backup.go 594, 607). A
  transaction that validates in between is taken for expired and its payload
  is sent again (`Expired` in `Send`). A duplicate chunk or manifest is
  harmless, as `AnchorSound` and `DumpSufficient` show.
- The sequential path reuses a complete manifest although a chunk of this run
  was not found and was sent again (backup.go 474); the batched path refuses
  (batch.go 69-73). The reused manifest names the earlier chunks, and those are
  on the ledger and in the dump (`Consistent`, `NamesPresent`).
- `Save` truncates the only copy of the dump (dump.go 85). An interruption
  there loses the record, and the next run sends everything again
  (`TornSave`); it still finishes (`EventuallyDone`).
- `sendBatch` reports that nothing of a Batch is on the ledger when the look-up
  of an inner transaction gets no answer (batch.go 438), which may be wrong
  (`InnerLookupFails`).
- A manifest of an interrupted run that lands after the next run has read the
  history makes two backups at one (epoch, seq): discovery then refuses with a
  conflict although one host wrote both (`LandLate`).
- `init` checks for a key file with `Stat` and writes it minutes later with
  `WriteFile`, which truncates. Two runs side by side lose one key file,
  although the message says that init never overwrites one. With two members
  in `Inits` the model shows it (`KeyKept` fails), so the passing run has one.
- One Ctrl-C between the printing of the words and the start of the guard ends
  `init`; so does one at any time with `--yes`.

## Proofs

Each theorem is about every value of the constants that the named `ASSUME`s of
the modules allow; further hypotheses are in the statement and said here.

### Sequential submission: `SequentialProofs`

`SequentialProofs` proves for every number of chunks, parts, attempts and
faults, with and without `--delete-anchor`:

| Theorem | Says |
|---|---|
| `TypeCorrect` | every variable keeps its type |
| `ConsistentAlways` | the inductive invariant below |
| `AnchorAlwaysSound` | the DID entry never names a backup that is not whole on the ledger |
| `DumpAlwaysSufficient` | after success the dump restores the anchored backup and records the DID entry |
| `DeleteAlwaysHolds` | after a tombstone with `--delete-anchor` no DID entry exists and none can come back |

Assumptions: at least one attempt (`AttemptsAssumption`), a natural number of
chunks and faults and at least one manifest part (`PlanAssumption`), a Boolean
flag (`DeleteAssumption`).

Why an invariant is needed. `AnchorSound` is about the ledger, but an anchor can
land long after the process that sent it died, so the argument must hold for
everything in flight: `FlightSafe` says that the chunks of a manifest and the
backup of an anchor are already on the ledger when it is sent. To know this at
the moment of sending, the process's beliefs must be true: `StageSafe` says
what each stage has behind it, `CurSafe` what it waits for, `LandedSafe` that
once this has landed nothing else can land before the process goes on, and
`DIDSettled` what the DID entry is then. A resumed run gets its beliefs from
the dump and the ledger, so `AllGenuine` and `NamesPresent` say what can be in
them. A manifest found complete part by part is one sealing only because no
nonce repeats (`NonceUnique`, `NoncesDrawn`): this is lemma `ReuseRestorable`. The
code draws ten random bytes for each sealing; the model takes them to be fresh, so
that they do not repeat is an assumption and not a result.
`Consistent` is the conjunction of what the network holds (`NetSafe`) and what
the process believes (`RunSafe`); the run `sequential` checks it as well. The
proof has one lemma per effect for each half (`NetAttempt`, `NetLand`,
`RunLand`, ...), one lemma per action (`SendChunkSafe`, ...) that combines them,
and the theorems follow by `PTL`.

### Batched submission: `BatchedProofs`, `BatchLayoutProofs`

For every number of chunks, parts, attempts and faults and every Batch size
(`InnerAssumption`: at least two, as in the code):

| Theorem | Says |
|---|---|
| `TypeCorrect` | every variable keeps its type |
| `ConsistentAlways` | the inductive invariant below |
| `NoManifestIsUnanchored` | a manifest all of whose parts are on the ledger has an anchor there |
| `AnchorAlwaysSound` | the DID entry never names a backup that is not whole on the ledger |
| `DumpAlwaysSufficient` | after success the dump restores the anchored backup and records the DID entry |

The argument is that of `Sequential` with sets for single transactions. A Batch
lands as a whole, so `GroupSafe` says of each transmission in flight that what it
needs is on the ledger *or in the transmission itself*: chunks for a manifest
(`NamesIn`), a whole backup for an anchor (`AnchorsIn`), an anchor for a last
part (`LastIn`). Attempts of several runs compete, so `CurSafe` adds that no other
transmission in flight carries the number of the one the run waits for. Between
the groups of the tail a run relies on the parts sent before (`PartsBefore`).

`NoUnanchoredManifest` alone is not inductive: nothing in it says which part may
land without the anchor. `LastIn` is the reason it holds, and `LastIn` rests on
how `splitBatches` cuts. `BatchLayoutProofs` proves of `Groups`, `First` and
`SplitSize` that the groups are consecutive, cover everything and fit a Batch, and
that only the first one can have a single member and then is not the last
(`LayoutIs`, `LayoutFits`), so the last part always travels with the anchor.

### One transaction: `SendProofs`

| Theorem | Says |
|---|---|
| `TypeCorrect` | the attempt and poll loops keep their types |
| `SendDelivers` | `Spec => Delivers`: every step of `Send` is a step of `Delivery` or a stutter |

The two submit models are built on `Delivery`, so `SendDelivers` is what carries
their theorems down to the polling loop. All steps but one are renamings. When a
ledger closes, the network draws from its pool while `Delivery` draws from what
was signed with the current account sequence; `Competing` relates the two. It
covers the blob that is signed and not yet submitted: either it is among the
competitors or the sequence has moved on and it is dead before it is sent.

### History and discovery: `DiscoverProofs`

| Theorem | Under | Says |
|---|---|---|
| `TypeCorrect` | | epochs and seqs stay within their last values |
| `NewestIsChosen` | | the newest backup in reach is taken, or a conflict is reported |
| `AnchorIsHonoured` | | nothing older is taken for the verified anchor, and it is not called missing while its manifest is there |
| `StaleKeyIsTold` | `OneWriter` | a reader with an old key file is told so |
| `BackupsNeverOlder` | `OneWriter` | nothing older lands on top of what has landed |
| `FinishedStands` | `OneWriter` | a backup reported done stays the newest, and the DID entry names it or was deleted, until the host plans again |

The first three hold for any number of hosts, whatever they do and however
little the servers keep. `HistInv` says what the account's history is (finite, so
that leaders can be counted; a newest member exists because epochs and seqs are
bounded naturals, by `WFMin`) and `ReadInv` what a reader knows; its core is that
the set of opened manifests is exactly what the tried epochs (`Tried`) open. That `Widen` stops only when no
epoch within the probe distance is left then gives `NewestChosen`.

The others need `OneWriter`: one host, whole histories, no `--force-seq`. Its runs
may be cut anywhere and what they sent may land late, as `send` leaves a
transaction in flight until its `LastLedgerSequence`. The invariant `Ordered` has
four parts: nothing is of a later epoch than the key file (`EpochsKnown`), the
ledger order never goes down in (epoch, seq) (`Sorted`), what is planned or in
flight is not older than what has landed (`Ahead`), and once a run is done nothing
competes with it (`Settled`), because each transmission takes the validated account
sequence and the one that landed has used it up. `GapFree` (every lower seq of
the epoch has landed) gives `Ahead` for what `NextSeq` plans. Two backups may still
share a place: a run that reads the history while the manifest of a cut one is in
flight plans the same seq. Without whole histories the code does not promise any
of this, which the run `history_pruned` shows. `discover_one` checks the three
properties under the same hypotheses.

### Key files: `KeyFilesProofs`

| Theorem | Under | Says |
|---|---|---|
| `TypeCorrect` | | `init`, rotations and disk keep their types |
| `OnePressIsSafe` | | one Ctrl-C never voids the words, however signals, guard and main goroutine interleave |
| `KeysAreKept` | `OneEach` | every key file that was ever complete stays on disk |
| `AsideNamesAreTrue` | `OneEach` | a moved-aside file holds the key of the epoch in its name |

`GuardInv` accounts for presses: what is buffered in the channel and what the
guard has taken were pressed, and nothing but the guard can end the process while
the words are unsaved. `DiskInv` says what each system call of a rotation may
rely on (`RotateAt`): before `Remove` the key file has its second name, before
`WriteFile` the name is free, and a file half written has no other name.
`OneEach` (one `init` and one rotation at a time) is a hypothesis because
`cmd_init.go` takes no lock; see the observation on two runs side by side.

### Backup and restore: `RestoreProofs`

| Theorem | Says |
|---|---|
| `BundlesFollow` | the bundle of a landed backup is whole unless a run about that very backup was cut |
| `DoneMeansRestorable` | after Done the newest backup and its bundle restore every file complete, with only a validator's warning left to do; or a path is unsafe and `restore` exits 3 |
| `ReportsAreTrue` | `restore` tells what it cannot give back; Written means the directory holds what the report judged |
| `NothingClobbered` | without `--force` no step changes a file that was there at the check |
| `VerifyAgrees` | what `verify` fails `restore` fails with the same exit code; what it passes `restore` builds, or refuses for an unsafe path and nothing else |
| `TombstoneIsPassed` | `--allow-tombstoned` gives the newest real backup before the tombstone |

They hold for every bound on backups, edits, dry runs, cuts and restores, and for
every choice of unsafe paths and of files to include. The
invariant has a part for the backup command (`BackupInv`: seqs on the ledger are
1, 2, 3 ... and a bundle about to be called Done is there), `BundleFollows` itself,
and a part for restore (`RestoreInv`; `WriteInv` says which files are already in
the target and that no two of the rest share a base name). The lemmas
`BuildWithBundle` and `BuildWithoutBundle` say what `restore.Build` makes of what
`backup.Build` wrote, `RefusedIs` that it refuses such a backup for its paths alone, `SelectedIs` which backup the flags select. There is no
separate type theorem: the invariant includes the types it needs.

### Sizes and plan: `ContentProofs`

`SizesRight`: `SizesAgree` (`PackInverts`, `PrefixInverts` and `MemosFit`) holds
for every length, not only those the run tries. The lemmas are about the operators: `PadLenFills` (a pad makes whole blocks and fits its field),
`PackBack`, `PrefixBack` (by the three ranges of the prefix), `PartsCover` and
`PiecesFit`.

`ManifestAlwaysFits`: for every number of chunks, every
limit on parts and every slack, a plan that `Build` accepts is never refused
after its chunks have landed, and the forecast is at most one part too high.
The inductive invariant `FitsInv` keeps that the projection was within the limit
when the plan was accepted and that the manifest has grown by at most nine
digits per chunk since; `PartsGrow` says that parts grow with the length and
`DigitsGrow` that all digits together are less than one part, which is
`FeesAssumption` (9 * MaxChunks < 944; the code has 8 chunks).

`LayoutAlwaysLegal`: for every number of parts and every Batch size the run sends
parts and anchor exactly once, in groups a Batch can carry, and never the anchor
alone, also when the manifest has grown since the plan. `LayoutInv` ties the
count of what was sent to the group at hand (`next = First(k + 1, g)`);
`LayoutFits` of `BatchLayoutProofs` does the arithmetic.

`RunsAsPlanned`: `LayoutLegal`, and `FeesAgree`: a run pays what `BaseFees` says for
its chunks and parts, and never more than the report forecast for the projected
manifest. The loop of `BaseFees` is the recursive function `GroupFees`; that it is
what its recursion says (`GroupFeesIs`) and what it adds up to (`LoopFeesAre`: a
fee per transaction and two more per group, without the two where the first group
is a single transaction) are inductions, in the form of lemma `InductNat`, which
takes a *set* of naturals and not a predicate. `FeesInv` says that what was paid so
far is the loop's sum so far; `LoopFeesGrow` and `BaseFeesGrow`, that a longer
manifest never costs less, give the comparison with the forecast.

### Attestations: `ContentProofs`

| Theorem | Says |
|---|---|
| `VerdictsMean` | `attest-verify` says valid exactly when the comment of `Evaluate` says so, and never calls a valid attestation forged or retired because history is missing |
| `VerdictsSettle` | no step changes the verdict on an attestation that stays the newest |
| `PublishedReadsValid` | what `backup` let through reads as valid when it has landed, unless a delegation landed where the judged history did not show it |

They hold for every set of hosts, keys and validators, for histories of any
length and for any amount of noise and of dropped history. `AttestAssumption`: the
bounds are naturals, and the two marks for a missing and a torn key file are not
keys.

`Evaluate` numbers the memos of the account through all transactions and folds
over the numbers; the properties speak of *places* (transaction, memo). The proof
first leaves the numbers behind: `OrderedAppend` says what a transaction at the end
adds to the list, `ListingExists` that the list runs through the places in ledger
order, `NewestAt` which place is the newest attestation, and `EvaluateIs` states
the verdict by places alone (`Mine`, `Same`, `Retired`, `Signs`). From there on no
list occurs. That one history is seen in another is `Embeds`, an order-preserving
map of places; `EmbedVerdict` says that the verdict is the same where the
part covers what the verdict rests on (`Covers`). A suffix (a server that has
dropped ledgers), a single transaction (a dump of one run) and a history that has
grown are three such maps, and give `PrunedExplained`, `VerdictSettled` and
`PublishedValid`. The invariant `AttInv` says of the history which memos there can be
and how a transaction combines them, at most one delegation before an attestation
(`Written`, `Shape`), and of every run in flight which stretch of it had been read
and that the attestation was acceptable there (`Judged`).

Stating the verdict by places showed that the arms of a `CASE` in `Judge` overlapped
(a higher dseq and no delegation of its own at once), which leaves open which one
is meant; they are now tried in the order of delegate.go 260-284, as `TLC` had
always read them.

### Redaction: `ContentProofs`

| Theorem | Says |
|---|---|
| `EveryTextIsSafe` | the three properties below hold for every sequence of symbols |
| `RestoresExactly` | ledger document and bundle, rendered, parsed again and merged, are the operator's text |
| `LedgerShowsNothingPrivate` | no line of the ledger document, read again, shows what a scanner would have moved |
| `GapsAlwaysHarmless` | without the bundle every stanza keeps exactly the settings that did not move, the report tells truly which lost none, and such a file is refused by the next backup |

No constant is assumed anything of. `EveryTextIsSafe` speaks of every text, also of
those no behaviour types: `MaxText`, `MaxLine` and the symbols of `Layout` and
`Words` limit only what TLC enumerates, and the other three follow from it with
`TextAlwaysTyped`. What is a symbol is still the model's choice: two words are told
apart where a scanner tells them apart.

The argument goes from lines to documents:

1. *The scan.* `ScanExists` and `ScanIs` say that the recursion of `splitLines`
   defines what it says, `SplitIs` that the lines it makes, rendered, are the text,
   and that every line but the last is ended. `ReadsBack` is the converse: lines of
   that form (`Closed`), rendered, are scanned as themselves. The delicate case is
   a lone carriage return before a line feed, which would become one terminator.
2. *One line.* `TrimIs`, `KindIs` and `SettingIs` say what `Parse` makes of a line;
   `FateIs` and `LeftIs` what `Split` leaves of it: the line, a marker, or a setting
   without its comment and a marker after it. `MarkedLine` says that the last of
   these reads as the same setting. That is where the code's refusal to cut a comment
   when the rest looks like a header is needed.
3. *The ledger document.* `OnChainReads`: read again it has the same number of lines,
   each as in 2, and, as no header is made or lost (`StanzasSame`), each in the
   stanza it came from. `LineHarmless` gives `NothingPrivate`; `ShownAre` and
   `SettingsStay` the settings that remain; `GapShows` that the next `Split` refuses.
4. *The merge.* `BundleReads`: the bundle, read again, is the moved lines in order.
   `MarkersAre`: the markers of the ledger document are exactly at the lines that
   moved, as `refuse` has excluded texts with markers of their own. `MergesBack` then
   counts: the n-th marker meets the n-th line of the bundle (`Nth`, `EveryRank`).

### Only model-checked

- Liveness (`EventuallyDone`, `Terminates`, `SearchEnds`, `InitEnds`): needs
  fairness and `ENABLED`, out of the prover's reach.
- `Formats`, `Codec`: sorts, folds and parsers over files, frames and fields. The
  run tries every kind of field and every order of a few files and frames.

## Not modelled

- Flag parsing, prompts and reports (main.go and the printing part of every
  command): no state, and no decision that the models do not take.
- The bytes of the manifest's JSON, the anchor, the key file, words, shares and
  addresses: sequential encodings with tests of their own. Where the models use
  them they are values that decode or do not.
- The cryptographic primitives: authentic or not. A manifest's random nonce prefix
  is taken to be fresh; the frames of a bundle are in `Formats`.
- Compression, which `Encoding` takes as a length.
- In discovery: manifests of more parts than allowed, and how parts under one
  nonce prefix are put together.
- The fresh directory of `WriteTemp`, `Dump.Merge` and `cfg.Canonical` (the last two
  have no caller outside the tests); parsing of JSON-RPC answers.
- Two paths whose invalid bytes JSON turns into one and the same name: `restore`
  refuses either of them already.

## Plan

Done: all modules of the plan; the theorems of both submit paths, of `send`
against `Delivery`, of history and discovery, key files, backup and restore, of
sizes, layout and fees, of attestations, and of redaction.

Left, in order of importance:

1. Weaker hypotheses: `KeysAreKept` with several rotations beside each other
   where the code allows them, `BackupsNeverOlder` for several hosts that take
   turns.
2. Action properties of the submit paths: the dump of a successful run never
   loses what it recorded.
