--------------------------- MODULE KeyFilesProofs ---------------------------
(***************************************************************************)
(* Proofs about module KeyFiles, for every number of epochs, aside names,  *)
(* files, crashes, words and interrupts.                                   *)
(*                                                                         *)
(*   - The Ctrl-C guard of init, for any number of processes.              *)
(*   - The key file on disk, for one init and one rotation at a time.      *)
(*     The command line takes no lock: a second init, or a second          *)
(*     rotation, between the check and the write of the first one is       *)
(*     outside of what cmd_init.go promises.                               *)
(***************************************************************************)
EXTENDS KeyFiles, TLAPS

Unsaved == {"stat", "words", "check", "open", "write"}

-----------------------------------------------------------------------------
(***************************************************************************)
(* The guard.  What the goroutine holds has been pressed: the channel's    *)
(* signal and the one already taken each account for one press, and while  *)
(* the words are unsaved nothing but the guard can end the process.        *)
(***************************************************************************)

GuardAt(p) ==
    /\ main[p] \in {"stat", "words"} => guard[p] = "off"
    /\ main[p] \in Unsaved \cup {"close"} => ~closed[p]
    /\ guard[p] = "off" => ~notify[p] /\ ~closed[p] /\ buffer[p] = 0
    /\ guard[p] = "gone" => closed[p]
    /\ guard[p] # "off" /\ main[p] \in Unsaved => notify[p]
    /\ guard[p] = "first" => buffer[p] <= presses
    /\ guard[p] = "second" => buffer[p] + 1 <= presses
    /\ guard[p] = "exit" => presses >= 2
    /\ main[p] \in {"stat", "words", "check"} => asked[p] < Picks
    /\ WordsVoid(p) => presses >= 2

GuardInv == \A p \in Inits : GuardAt(p)

\* A rotation goes on only with a key file it could read, and never past the
\* last epoch.
SeenAt(r) ==
    /\ pc[r] # "idle" => seen[r] \in KeyFile
    /\ pc[r] \in {"link", "remove", "open", "write"} => seen[r].epoch < LastEpoch

SeenInv == \A r \in Rotates : SeenAt(r)

\* The types of what is on disk and of the rotations.
DiskType ==
    /\ dir \in [Names -> 0..files]
    /\ DOMAIN data = File /\ \A f \in File : data[f] # Torn => data[f] \in KeyFile
    /\ files \in 0..MaxFiles /\ crashes \in 0..MaxCrashes
    /\ made \subseteq KeyFile
    /\ fd \in [Procs -> 0..files]
    /\ pc \in [Rotates -> {"idle", "words", "link", "remove", "open", "write"}]
    /\ slot \in [Rotates -> 1..Slots]
    /\ seen \in [Rotates -> KeyFile \cup {Torn}]
    /\ SeenInv

TypeInv == InitTypeOK /\ GuardInv /\ DiskType

-----------------------------------------------------------------------------
(***************************************************************************)
(* The disk.                                                               *)
(***************************************************************************)

\* One init and one rotation at a time.
OneEach ==
    /\ \A p, q \in Inits : p = q
    /\ \A p, q \in Rotates : p = q

AsideNames == Names \ {KeyPath}

\* Until init has written the key file there is nothing to keep.
NothingYet ==
    /\ made = {}
    /\ \A f \in File : data[f] = Torn
    /\ \A r \in Rotates : pc[r] = "idle"
    /\ \A n \in AsideNames : dir[n] = 0

InitAt(p) ==
    /\ main[p] \in Unsaved => NothingYet
    /\ main[p] = "write" => fd[p] # 0 /\ fd[p] = dir[KeyPath]

\* What a rotation knows at each of its system calls.
RotateAt(r) ==
    /\ pc[r] \in {"words", "link", "remove"} =>
          Exists(KeyPath) /\ data[dir[KeyPath]] = seen[r]
    /\ pc[r] = "remove" => dir[Target(r)] = dir[KeyPath]
    /\ pc[r] = "open" => ~Exists(KeyPath)
    /\ pc[r] = "write" =>
          /\ fd[r] # 0 /\ fd[r] = dir[KeyPath] /\ data[fd[r]] = Torn
          /\ \A n \in AsideNames : dir[n] # fd[r]

Fresh == \A f \in File : f > files => data[f] = Torn

DiskInv ==
    /\ \A p \in Inits : InitAt(p)
    /\ \A r \in Rotates : RotateAt(r)
    /\ Fresh
    /\ KeyKept
    /\ AsideNamed

-----------------------------------------------------------------------------
(***************************************************************************)
(* Types and the guard.                                                    *)
(***************************************************************************)

LEMMA InitTypeInv == Init => TypeInv
  <1> SUFFICES ASSUME Init PROVE TypeInv
    OBVIOUS
  <1> USE KeyInitAssumption, KeyFilesAssumption
  <1>1. InitTypeOK
    BY DEF Init, InitInit, InitTypeOK
  <1>2. TypeOK
    BY <1>1 DEF Init, TypeOK, Names, KeyPath, File, Procs
  <1>3. GuardInv
    <2>1. 0 < Picks
      OBVIOUS
    <2> QED BY <2>1 DEF Init, InitInit, GuardInv, GuardAt, WordsVoid, Unsaved
  <1>4. SeenInv /\ seen \in [Rotates -> KeyFile \cup {Torn}]
    BY DEF Init, SeenInv, SeenAt
  <1> QED BY <1>1, <1>2, <1>3, <1>4 DEF TypeInv, DiskType, TypeOK

\* A step of init or of its operator that touches no file.
LEMMA GuardMoves ==
    ASSUME InitTypeOK, GuardInv, NEW p \in Inits,
           MainStep(p) \/ GuardStep(p) \/ Press(p)
    PROVE  InitTypeOK' /\ GuardInv'
  <1> USE KeyInitAssumption
  <1>1. CASE StartGuard(p)
    <2>1. InitTypeOK'
      BY <1>1 DEF StartGuard, Goto, checkVars, InitTypeOK
    <2>2. GuardAt(p)'
      BY <1>1 DEF StartGuard, Goto, checkVars, InitTypeOK, GuardInv, GuardAt, WordsVoid, Unsaved
    <2>3. ASSUME NEW q \in Inits, q # p PROVE GuardAt(q)'
      BY <1>1, <2>3 DEF StartGuard, Goto, checkVars, InitTypeOK, GuardInv, GuardAt, WordsVoid, Unsaved
    <2> QED BY <2>1, <2>2, <2>3 DEF GuardInv
  <1>2. CASE SkipCheck(p)
    BY <1>2 DEF SkipCheck, Goto, checkVars, sigVars, InitTypeOK, GuardInv, GuardAt, WordsVoid, Unsaved
  <1>3. CASE Enter(p)
    BY <1>3 DEF Enter, Accepted, Again, CheckFails, Goto, checkVars, sigVars, InitTypeOK, GuardInv, GuardAt, WordsVoid, Unsaved
  <1>4. CASE EarlyReturn(p)
    BY <1>4 DEF EarlyReturn, Goto, checkVars, sigVars, InitTypeOK, GuardInv, GuardAt, WordsVoid, Unsaved
  <1>5. CASE CloseDone(p)
    BY <1>5 DEF CloseDone, Goto, checkVars, InitTypeOK, GuardInv, GuardAt, WordsVoid, Unsaved
  <1>6. CASE StopNotify(p)
    BY <1>6 DEF StopNotify, Goto, checkVars, InitTypeOK, GuardInv, GuardAt, WordsVoid, Unsaved
  <1>7. CASE Report(p)
    BY <1>7 DEF Report, Goto, checkVars, sigVars, InitTypeOK, GuardInv, GuardAt, WordsVoid, Unsaved
  <1>8. CASE FirstSignal(p)
    BY <1>8 DEF FirstSignal, checkVars, InitTypeOK, GuardInv, GuardAt, WordsVoid, Unsaved
  <1>9. CASE SecondSignal(p)
    BY <1>9 DEF SecondSignal, checkVars, InitTypeOK, GuardInv, GuardAt, WordsVoid, Unsaved
  <1>10. CASE GuardDone(p)
    BY <1>10 DEF GuardDone, checkVars, sigVars, InitTypeOK, GuardInv, GuardAt, WordsVoid, Unsaved
  <1>11. CASE ExitNow(p)
    BY <1>11 DEF ExitNow, checkVars, sigVars, InitTypeOK, GuardInv, GuardAt, WordsVoid, Unsaved
  <1>12. CASE Press(p)
    <2>0. presses' \in 0..MaxPresses /\ buffer' \in [Inits -> 0..1]
          /\ alive' \in [Inits -> BOOLEAN]
      <3>1. CASE notify[p]
        BY <1>12, <3>1 DEF Press, InitTypeOK
      <3>2. CASE ~notify[p]
        <4>1. presses' = presses + 1 /\ presses < MaxPresses /\ buffer' = buffer
              /\ alive' = [alive EXCEPT ![p] = FALSE]
          BY <1>12, <3>2 DEF Press
        <4>2. alive' \in [Inits -> BOOLEAN]
          BY <4>1 DEF InitTypeOK
        <4> QED BY <4>1, <4>2 DEF InitTypeOK
      <3> QED BY <3>1, <3>2
    <2>1. InitTypeOK'
      BY <1>12, <2>0 DEF Press, checkVars, InitTypeOK
    <2>2. GuardAt(p)'
      BY <1>12 DEF Press, checkVars, InitTypeOK, GuardInv, GuardAt, WordsVoid, Unsaved
    <2>3. ASSUME NEW q \in Inits, q # p PROVE GuardAt(q)'
      BY <1>12, <2>3 DEF Press, checkVars, InitTypeOK, GuardInv, GuardAt, WordsVoid, Unsaved
    <2> QED BY <2>1, <2>2, <2>3 DEF GuardInv
  <1> QED
    BY <1>1, <1>2, <1>3, <1>4, <1>5, <1>6, <1>7, <1>8, <1>9, <1>10, <1>11, <1>12
       DEF MainStep, GuardStep

\* The steps of init that do touch files move only its own program counter.
LEMMA InitAdvances ==
    ASSUME InitTypeOK, GuardInv, NEW p \in Inits, alive[p],
           UNCHANGED <<checkVars, sigVars, guard, presses>>,
           \/ main[p] = "stat" /\ Goto(p, "words") /\ UNCHANGED alive
           \/ main[p] = "stat" /\ Goto(p, "returned") /\ alive' = [alive EXCEPT ![p] = FALSE]
           \/ main[p] = "open" /\ Goto(p, "write") /\ UNCHANGED alive
           \/ main[p] \in {"open", "write"} /\ Goto(p, "close") /\ UNCHANGED alive
    PROVE  InitTypeOK' /\ GuardInv'
  <1>1. main' \in [Inits -> {"stat", "words", "check", "open", "write", "close", "stop",
                             "report", "returned"}]
    BY DEF InitTypeOK, Goto
  <1>2. alive' \in [Inits -> BOOLEAN]
    BY DEF InitTypeOK
  <1>3. InitTypeOK'
    BY <1>1, <1>2 DEF InitTypeOK, checkVars, sigVars
  <1>4. ASSUME NEW q \in Inits PROVE GuardAt(q)'
    <2>1. CASE q = p
      BY <2>1 DEF Goto, checkVars, sigVars, InitTypeOK, GuardInv, GuardAt, WordsVoid, Unsaved
    <2>2. CASE q # p
      BY <2>2 DEF Goto, checkVars, sigVars, InitTypeOK, GuardInv, GuardAt, WordsVoid, Unsaved
    <2> QED BY <2>1, <2>2
  <1> QED BY <1>3, <1>4 DEF GuardInv

LEMMA InitVarsKept ==
    ASSUME InitTypeOK, GuardInv, UNCHANGED initVars
    PROVE  InitTypeOK' /\ GuardInv'
  BY DEF InitTypeOK, GuardInv, GuardAt, WordsVoid, initVars, checkVars, sigVars

LEMMA OpenKeyType ==
    ASSUME DiskType, NEW p \in Procs, OpenKey(p)
    PROVE  /\ dir' \in [Names -> 0..files']
           /\ DOMAIN data' = File /\ \A f \in File : data'[f] # Torn => data'[f] \in KeyFile
           /\ files' \in 0..MaxFiles /\ made' \subseteq KeyFile
           /\ fd' \in [Procs -> 0..files']
  <1> USE KeyFilesAssumption
  <1>0. KeyPath \in Names
    BY DEF Names
  <1>1. CASE Exists(KeyPath)
    BY <1>0, <1>1 DEF OpenKey, DiskType
  <1>2. CASE ~Exists(KeyPath)
    <2>1. /\ files < MaxFiles /\ files' = files + 1
          /\ dir' = [dir EXCEPT ![KeyPath] = files']
          /\ fd' = [fd EXCEPT ![p] = files']
          /\ UNCHANGED <<data, made>>
      BY <1>2 DEF OpenKey
    <2> QED BY <1>0, <2>1 DEF DiskType
  <1> QED BY <1>1, <1>2

LEMMA WriteKeyType ==
    ASSUME DiskType, NEW p \in Procs, NEW c \in KeyFile, WriteKey(p, c)
    PROVE  /\ dir' \in [Names -> 0..files']
           /\ DOMAIN data' = File /\ \A f \in File : data'[f] # Torn => data'[f] \in KeyFile
           /\ files' \in 0..MaxFiles /\ made' \subseteq KeyFile
           /\ fd' \in [Procs -> 0..files']
  BY KeyFilesAssumption DEF WriteKey, DiskType

\* One rotation moves, the others keep what they know.
LEMMA RotationType ==
    ASSUME DiskType, NEW p \in Rotates, NEW l \in {"idle", "words", "link", "remove", "open", "write"},
           pc' = [pc EXCEPT ![p] = l],
           \/ UNCHANGED slot
           \/ slot' = [slot EXCEPT ![p] = 1],
           \/ UNCHANGED seen
           \/ Whole(KeyPath) /\ seen' = [seen EXCEPT ![p] = data[dir[KeyPath]]],
           l # "idle" => seen'[p] \in KeyFile,
           l \in {"link", "remove", "open", "write"} => seen'[p].epoch < LastEpoch
    PROVE  /\ pc' \in [Rotates -> {"idle", "words", "link", "remove", "open", "write"}]
           /\ slot' \in [Rotates -> 1..Slots]
           /\ seen' \in [Rotates -> KeyFile \cup {Torn}]
           /\ SeenInv'
  <1> USE KeyFilesAssumption
  <1>1. slot' \in [Rotates -> 1..Slots]
    BY DEF DiskType
  <1>2. pc' \in [Rotates -> {"idle", "words", "link", "remove", "open", "write"}]
    BY DEF DiskType
  <1>3. seen' \in [Rotates -> KeyFile \cup {Torn}]
    <2>1. Whole(KeyPath) => data[dir[KeyPath]] \in KeyFile
      BY DEF Whole, Exists, DiskType, Names, File
    <2> QED BY <2>1 DEF DiskType
  <1>4. ASSUME NEW r \in Rotates PROVE SeenAt(r)'
    <2>1. CASE r = p
      BY <2>1, <1>2 DEF SeenAt, DiskType
    <2>2. CASE r # p
      <3>1. pc'[r] = pc[r] /\ seen'[r] = seen[r]
        BY <2>2 DEF DiskType
      <3> QED BY <3>1 DEF SeenAt, DiskType, SeenInv
    <2> QED BY <2>1, <2>2
  <1> QED BY <1>1, <1>2, <1>3, <1>4 DEF SeenInv

LEMMA InitStepType ==
    ASSUME TypeInv, NEW p \in Inits, InitStep(p) \/ Alone(GuardStep(p)) \/ Alone(Press(p))
    PROVE  TypeInv'
  <1>0. InitTypeOK /\ GuardInv /\ DiskType /\ p \in Procs
    BY DEF TypeInv, Procs
  <1>1. CASE Alone(MainStep(p)) \/ Alone(GuardStep(p)) \/ Alone(Press(p))
    <2>1. InitTypeOK' /\ GuardInv'
      BY <1>0, <1>1, GuardMoves DEF Alone
    <2>2. DiskType'
      BY <1>0, <1>1 DEF Alone, fileVars, rotateVars, DiskType, SeenInv, SeenAt
    <2> QED BY <2>1, <2>2 DEF TypeInv
  <1>2. CASE InitStat(p)
    <2>1. InitTypeOK' /\ GuardInv'
      BY <1>0, <1>2, InitAdvances DEF InitStat
    <2>2. DiskType'
      BY <1>0, <1>2 DEF InitStat, fileVars, rotateVars, DiskType, SeenInv, SeenAt
    <2> QED BY <2>1, <2>2 DEF TypeInv
  <1>3. CASE InitOpen(p)
    <2>1. InitTypeOK' /\ GuardInv'
      BY <1>0, <1>3, InitAdvances DEF InitOpen
    <2>2. DiskType'
      BY <1>0, <1>3, OpenKeyType DEF InitOpen, rotateVars, DiskType, SeenInv, SeenAt
    <2> QED BY <2>1, <2>2 DEF TypeInv
  <1>4. CASE InitWrite(p)
    <2>1. InitTypeOK' /\ GuardInv'
      BY <1>0, <1>4, InitAdvances DEF InitWrite
    <2>2. [root |-> p, epoch |-> 0] \in KeyFile
      BY KeyFilesAssumption DEF KeyFile
    <2>3. DiskType'
      BY <1>0, <1>4, <2>2, WriteKeyType DEF InitWrite, rotateVars, DiskType, SeenInv, SeenAt
    <2> QED BY <2>1, <2>3 DEF TypeInv
  <1> QED BY <1>1, <1>2, <1>3, <1>4 DEF InitStep

LEMMA RotateStepType ==
    ASSUME TypeInv, NEW p \in Rotates, RotateStep(p)
    PROVE  TypeInv'
  <1> USE KeyFilesAssumption
  <1>0. InitTypeOK /\ GuardInv /\ DiskType /\ p \in Procs /\ SeenAt(p)
    BY DEF TypeInv, Procs, DiskType, SeenInv
  <1>1. UNCHANGED <<initVars, crashes>>
    BY DEF RotateStep, Read, Words, Link, Remove, RotateOpen, RotateWrite
  <1>2. InitTypeOK' /\ GuardInv'
    BY <1>0, <1>1, InitVarsKept
  <1>3. KeyPath \in Names
    BY DEF Names
  <1>4. CASE Read(p)
    <2>1. data[dir[KeyPath]] \in KeyFile
      BY <1>0, <1>3, <1>4 DEF Read, Whole, Exists, DiskType, File
    <2>2. seen'[p] \in KeyFile
      BY <1>0, <1>4, <2>1 DEF Read, DiskType
    <2>3. /\ pc' \in [Rotates -> {"idle", "words", "link", "remove", "open", "write"}]
          /\ slot' \in [Rotates -> 1..Slots]
          /\ seen' \in [Rotates -> KeyFile \cup {Torn}]
          /\ SeenInv'
      BY <1>0, <1>4, <2>2, RotationType DEF Read, Then
    <2>4. DiskType'
      BY <1>0, <1>4, <2>3 DEF Read, fileVars, DiskType
    <2> QED BY <1>2, <2>4 DEF TypeInv
  <1>5. CASE Words(p)
    <2>1. UNCHANGED <<fileVars, fd, seen, crashes>> /\ pc[p] = "words"
      BY <1>5 DEF Words
    <2>2. /\ pc' \in [Rotates -> {"idle", "words", "link", "remove", "open", "write"}]
          /\ slot' \in [Rotates -> 1..Slots]
          /\ seen' \in [Rotates -> KeyFile \cup {Torn}]
          /\ SeenInv'
      <3>1. CASE seen[p].epoch < LastEpoch /\ Then(p, "link")
        BY <1>0, <2>1, <3>1, RotationType DEF Then, SeenAt
      <3>2. CASE End(p)
        BY <1>0, <2>1, <3>2, RotationType DEF End
      <3> QED BY <1>5, <3>1, <3>2 DEF Words
    <2>3. DiskType'
      BY <1>0, <2>1, <2>2 DEF fileVars, DiskType
    <2> QED BY <1>2, <2>3 DEF TypeInv
  <1>6. CASE Link(p)
    <2>1. UNCHANGED <<data, files, made, fd, seen, crashes>> /\ pc[p] = "link"
      BY <1>6 DEF Link
    <2>2. /\ pc' \in [Rotates -> {"idle", "words", "link", "remove", "open", "write"}]
          /\ slot' \in [Rotates -> 1..Slots]
          /\ seen' \in [Rotates -> KeyFile \cup {Torn}]
          /\ SeenInv'
      <3>1. CASE Then(p, "remove")
        BY <1>0, <2>1, <3>1, RotationType DEF Then, SeenAt
      <3>2. CASE slot[p] < Slots /\ slot' = [slot EXCEPT ![p] = @ + 1] /\ UNCHANGED <<dir, pc>>
        BY <1>0, <2>1, <3>2 DEF DiskType, SeenInv, SeenAt
      <3>3. CASE End(p)
        BY <1>0, <2>1, <3>3, RotationType DEF End
      <3> QED BY <1>6, <3>1, <3>2, <3>3 DEF Link
    <2>3. dir' \in [Names -> 0..files']
      BY <1>0, <1>3, <1>6, <2>1 DEF Link, DiskType
    <2>4. DiskType'
      BY <1>0, <2>1, <2>2, <2>3 DEF DiskType
    <2> QED BY <1>2, <2>4 DEF TypeInv
  <1>7. CASE Remove(p)
    <2>1. UNCHANGED <<data, files, made, fd, seen, crashes>> /\ pc[p] = "remove"
      BY <1>7 DEF Remove
    <2>2. /\ pc' \in [Rotates -> {"idle", "words", "link", "remove", "open", "write"}]
          /\ slot' \in [Rotates -> 1..Slots]
          /\ seen' \in [Rotates -> KeyFile \cup {Torn}]
          /\ SeenInv'
      <3>1. CASE Then(p, "open")
        BY <1>0, <2>1, <3>1, RotationType DEF Then, SeenAt
      <3>2. CASE End(p)
        BY <1>0, <2>1, <3>2, RotationType DEF End
      <3> QED BY <1>7, <3>1, <3>2 DEF Remove
    <2>3. dir' \in [Names -> 0..files']
      BY <1>0, <1>3, <1>7, <2>1 DEF Remove, DiskType
    <2>4. DiskType'
      BY <1>0, <2>1, <2>2, <2>3 DEF DiskType
    <2> QED BY <1>2, <2>4 DEF TypeInv
  <1>8. CASE RotateOpen(p)
    <2>1. /\ pc' \in [Rotates -> {"idle", "words", "link", "remove", "open", "write"}]
          /\ slot' \in [Rotates -> 1..Slots]
          /\ seen' \in [Rotates -> KeyFile \cup {Torn}]
          /\ SeenInv'
      BY <1>0, <1>8, RotationType DEF RotateOpen, Then, SeenAt
    <2>2. DiskType'
      BY <1>0, <1>8, <2>1, OpenKeyType DEF RotateOpen, DiskType
    <2> QED BY <1>2, <2>2 DEF TypeInv
  <1>9. CASE RotateWrite(p)
    <2>1. [seen[p] EXCEPT !.epoch = @ + 1] \in KeyFile
      BY <1>0, <1>9 DEF RotateWrite, SeenAt, KeyFile
    <2>2. /\ pc' \in [Rotates -> {"idle", "words", "link", "remove", "open", "write"}]
          /\ slot' \in [Rotates -> 1..Slots]
          /\ seen' \in [Rotates -> KeyFile \cup {Torn}]
          /\ SeenInv'
      BY <1>0, <1>9, RotationType DEF RotateWrite, End
    <2>3. DiskType'
      BY <1>0, <1>9, <2>1, <2>2, WriteKeyType DEF RotateWrite, DiskType
    <2> QED BY <1>2, <2>3 DEF TypeInv
  <1> QED BY <1>4, <1>5, <1>6, <1>7, <1>8, <1>9 DEF RotateStep

LEMMA CrashType ==
    ASSUME TypeInv, Crash
    PROVE  TypeInv'
  <1> USE KeyFilesAssumption
  <1>0. InitTypeOK /\ GuardInv /\ DiskType
    BY DEF TypeInv
  <1>1. crashes' \in 0..MaxCrashes /\ UNCHANGED fileVars
    BY <1>0 DEF Crash, DiskType
  <1>2. ASSUME NEW p \in Rotates, End(p), fd' = [fd EXCEPT ![p] = 0],
               UNCHANGED <<initVars, seen>>
        PROVE  TypeInv'
    <2>1. /\ pc' \in [Rotates -> {"idle", "words", "link", "remove", "open", "write"}]
          /\ slot' \in [Rotates -> 1..Slots]
          /\ seen' \in [Rotates -> KeyFile \cup {Torn}]
          /\ SeenInv'
      BY <1>0, <1>2, RotationType DEF End
    <2>2. fd' \in [Procs -> 0..files]
      <3>1. p \in Procs /\ 0 \in 0..files
        BY <1>0, <1>2 DEF Procs, DiskType
      <3> QED BY <1>0, <1>2, <3>1 DEF DiskType
    <2>3. DiskType'
      BY <1>0, <1>1, <2>1, <2>2 DEF fileVars, DiskType
    <2> QED BY <1>0, <1>2, <2>3, InitVarsKept DEF TypeInv
  <1>3. ASSUME NEW p \in Inits, alive[p], main[p] \in {"open", "write"}, Goto(p, "close"),
               fd' = [fd EXCEPT ![p] = 0],
               UNCHANGED <<checkVars, sigVars, guard, alive, presses, rotateVars>>
        PROVE  TypeInv'
    <2>1. InitTypeOK' /\ GuardInv'
      BY <1>0, <1>3, InitAdvances
    <2>2. fd' \in [Procs -> 0..files]
      <3>1. p \in Procs /\ 0 \in 0..files
        BY <1>0, <1>3 DEF Procs, DiskType
      <3> QED BY <1>0, <1>3, <3>1 DEF DiskType
    <2>3. DiskType'
      BY <1>0, <1>1, <1>3, <2>2 DEF fileVars, rotateVars, DiskType, SeenInv, SeenAt
    <2> QED BY <2>1, <2>3 DEF TypeInv
  <1> QED BY <1>2, <1>3 DEF Crash

LEMMA PutBackType ==
    ASSUME TypeInv, PutBack
    PROVE  TypeInv'
  <1> USE KeyFilesAssumption
  <1>0. InitTypeOK /\ GuardInv /\ DiskType /\ KeyPath \in Names
    BY DEF TypeInv, Names
  <1>1. PICK n \in Names \ {KeyPath} :
             /\ Whole(n)
             /\ files' = files + 1
             /\ dir' = [dir EXCEPT ![KeyPath] = files']
             /\ data' = [data EXCEPT ![files'] = data[dir[n]]]
    BY DEF PutBack
  <1>2. files < MaxFiles /\ UNCHANGED <<initVars, made, fd, rotateVars, crashes>>
    BY DEF PutBack
  <1>3. data[dir[n]] \in KeyFile
    BY <1>0, <1>1 DEF Whole, Exists, DiskType, File
  <1>4. DOMAIN data' = File /\ \A f \in File : data'[f] # Torn => data'[f] \in KeyFile
    BY <1>0, <1>1, <1>3 DEF DiskType
  <1>5. dir' \in [Names -> 0..files'] /\ files' \in 0..MaxFiles
        /\ fd' \in [Procs -> 0..files']
    BY <1>0, <1>1, <1>2 DEF DiskType
  <1>6. DiskType'
    BY <1>0, <1>2, <1>4, <1>5 DEF rotateVars, DiskType, SeenInv, SeenAt
  <1> QED BY <1>0, <1>2, <1>6, InitVarsKept DEF TypeInv

LEMMA StepTypeInv == TypeInv /\ [Next]_vars => TypeInv'
  <1> SUFFICES ASSUME TypeInv, [Next]_vars PROVE TypeInv'
    OBVIOUS
  <1>1. CASE UNCHANGED vars
    <2>1. DiskType'
      BY <1>1 DEF TypeInv, vars, fileVars, rotateVars, DiskType, SeenInv, SeenAt
    <2> QED BY <1>1, <2>1, InitVarsKept DEF TypeInv, vars
  <1> QED
    BY <1>1, InitStepType, RotateStepType, CrashType, PutBackType DEF Next

LEMMA SpecTypeInv == Spec => []TypeInv
  BY InitTypeInv, StepTypeInv, PTL DEF Spec

\* The state of init, of the rotations and of the disk keeps its type, for
\* any number of processes (cmd_init.go): no epoch passes LastEpoch, no aside
\* name leaves the slots moveAside tries.
THEOREM TypeCorrect == Spec => []TypeOK
  <1>1. TypeInv => TypeOK
    BY DEF TypeInv, DiskType, TypeOK
  <1> QED BY <1>1, SpecTypeInv, PTL

\* One Ctrl-C never voids the words (cmd_init.go, interruptGuard), however
\* signals, the guard's select and the main goroutine interleave.
THEOREM OnePressIsSafe == Spec => []OnePressSurvives
  <1>1. TypeInv => OnePressSurvives
    BY DEF TypeInv, GuardInv, GuardAt, OnePressSurvives
  <1> QED BY <1>1, SpecTypeInv, PTL

-----------------------------------------------------------------------------
(***************************************************************************)
(* The disk.                                                               *)
(***************************************************************************)

LEMMA TornIsNoKey == Torn \notin KeyFile
  BY KeyFilesAssumption DEF Torn, KeyFile

\* The names a rotation moves the key file to are not the key path.
LEMMA TargetIsAside ==
    ASSUME TypeInv, NEW r \in Rotates, pc[r] # "idle"
    PROVE  Target(r) \in AsideNames /\ Target(r)[1] = seen[r].epoch
  <1>1. seen[r] \in KeyFile /\ slot[r] \in 1..Slots
    BY DEF TypeInv, DiskType, SeenInv, SeenAt
  <1>2. seen[r].epoch \in 0..LastEpoch
    BY <1>1 DEF KeyFile
  <1> QED
    BY <1>1, <1>2, KeyFilesAssumption DEF Target, Aside, AsideNames, Names, KeyPath

LEMMA DirType ==
    ASSUME TypeInv
    PROVE  /\ KeyPath \in Names /\ AsideNames \subseteq Names
           /\ \A n \in Names : dir[n] \in 0..files
           /\ \A n \in Names : Exists(n) => dir[n] \in File /\ dir[n] <= files
           /\ files \in Nat
           /\ \A n \in Names : Whole(n) => data[dir[n]] \in KeyFile
  BY KeyFilesAssumption DEF TypeInv, DiskType, Names, AsideNames, Exists, Whole, File

\* Once there is a key file to read, init is past its write.
LEMMA InitIsOver ==
    ASSUME TypeInv, DiskInv,
           (\E r \in Rotates : pc[r] # "idle") \/ (\E n \in Names : Whole(n))
    PROVE  \A p \in Inits : main[p] \notin Unsaved
  <1> SUFFICES ASSUME NEW p \in Inits, main[p] \in Unsaved PROVE FALSE
    OBVIOUS
  <1>1. NothingYet
    BY DEF DiskInv, InitAt
  <1>2. CASE \E r \in Rotates : pc[r] # "idle"
    BY <1>1, <1>2 DEF NothingYet
  <1>3. CASE \E n \in Names : Whole(n)
    BY <1>1, <1>3, DirType DEF NothingYet, Whole
  <1> QED BY <1>2, <1>3

LEMMA InitDiskInv == Init => DiskInv
  <1> SUFFICES ASSUME Init PROVE DiskInv
    OBVIOUS
  <1>1. ASSUME NEW p \in Inits PROVE InitAt(p)
    <2>1. NothingYet
      BY DEF Init, NothingYet, AsideNames
    <2> QED BY <2>1 DEF Init, InitInit, InitAt
  <1>2. \A r \in Rotates : RotateAt(r)
    BY DEF Init, RotateAt
  <1>3. Fresh /\ KeyKept /\ AsideNamed
    BY DEF Init, Fresh, KeyKept, AsideNamed, Whole, Exists
  <1> QED BY <1>1, <1>2, <1>3 DEF DiskInv

\* Steps of init that leave the disk and the rotations alone.
LEMMA DiskKept ==
    ASSUME DiskInv, UNCHANGED <<fileVars, fd, rotateVars>>,
           \A q \in Inits : /\ main'[q] \in Unsaved => main[q] \in Unsaved
                            /\ main'[q] = "write" => main[q] = "write"
    PROVE  DiskInv'
  <1>1. ASSUME NEW p \in Inits PROVE InitAt(p)'
    BY DEF DiskInv, InitAt, NothingYet, fileVars, rotateVars
  <1>2. ASSUME NEW r \in Rotates PROVE RotateAt(r)'
    BY DEF DiskInv, RotateAt, Exists, Target, fileVars, rotateVars
  <1>3. Fresh' /\ KeyKept' /\ AsideNamed'
    BY DEF DiskInv, Fresh, KeyKept, AsideNamed, Whole, Exists, fileVars
  <1> QED BY <1>1, <1>2, <1>3 DEF DiskInv

LEMMA MainQuiet ==
    ASSUME InitTypeOK, NEW p \in Inits, MainStep(p) \/ GuardStep(p) \/ Press(p),
           NEW q \in Inits
    PROVE  /\ main'[q] \in Unsaved => main[q] \in Unsaved
           /\ main'[q] = "write" => main[q] = "write"
  <1> USE DEF Goto, InitTypeOK, Unsaved
  <1>1. CASE UNCHANGED main
    BY <1>1
  <1>2. CASE StartGuard(p) \/ SkipCheck(p) \/ EarlyReturn(p) \/ CloseDone(p)
             \/ StopNotify(p) \/ Report(p)
    BY <1>2 DEF StartGuard, SkipCheck, EarlyReturn, CloseDone, StopNotify, Report
  <1>3. CASE Enter(p)
    BY <1>3 DEF Enter, Accepted, Again, CheckFails
  <1>4. GuardStep(p) \/ Press(p) => UNCHANGED main
    BY DEF GuardStep, FirstSignal, SecondSignal, GuardDone, ExitNow, Press
  <1> QED BY <1>1, <1>2, <1>3, <1>4 DEF MainStep

LEMMA InitStepDisk ==
    ASSUME OneEach, TypeInv, DiskInv, NEW p \in Inits,
           InitStep(p) \/ Alone(GuardStep(p)) \/ Alone(Press(p))
    PROVE  DiskInv'
  <1>0. InitTypeOK /\ DiskType
    BY DEF TypeInv
  <1>1. CASE Alone(MainStep(p)) \/ Alone(GuardStep(p)) \/ Alone(Press(p))
    BY <1>0, <1>1, MainQuiet, DiskKept DEF Alone
  <1>2. CASE InitStat(p)
    <2>1. \A q \in Inits : /\ main'[q] \in Unsaved => main[q] \in Unsaved
                           /\ main'[q] = "write" => main[q] = "write"
      BY <1>0, <1>2 DEF InitStat, Goto, InitTypeOK, Unsaved
    <2> QED BY <1>2, <2>1, DiskKept DEF InitStat
  <1>3. CASE InitOpen(p)
    <2>1. NothingYet /\ UNCHANGED <<rotateVars, made>>
      BY <1>3 DEF InitOpen, OpenKey, DiskInv, InitAt, Unsaved
    <2>2. \A f \in File : data'[f] = Torn
      BY <1>0, <1>3, <2>1 DEF InitOpen, OpenKey, NothingYet, DiskType
    <2>3. \A n \in AsideNames : dir'[n] = 0
      BY <1>0, <1>3, <2>1 DEF InitOpen, OpenKey, NothingYet, DiskType, AsideNames
    <2>4. NothingYet'
      BY <2>1, <2>2, <2>3 DEF NothingYet, rotateVars
    <2>5. fd'[p] # 0 /\ fd'[p] = dir'[KeyPath]
      <3>1. p \in Procs /\ KeyPath \in Names
        BY DirType DEF Procs
      <3> QED BY <1>0, <1>3, <3>1 DEF InitOpen, OpenKey, DiskType, Exists
    <2>6. \A q \in Inits : InitAt(q)'
      BY <2>4, <2>5 DEF OneEach, InitAt
    <2>7. \A r \in Rotates : RotateAt(r)'
      BY <2>4 DEF NothingYet, RotateAt
    <2>8. Fresh' /\ KeyKept' /\ AsideNamed'
      BY <2>4 DEF NothingYet, Fresh, KeyKept, AsideNamed, AsideNames, Whole, Exists
    <2> QED BY <2>6, <2>7, <2>8 DEF DiskInv
  <1>4. CASE InitWrite(p)
    <2> DEFINE c == [root |-> p, epoch |-> 0]
    <2>1. NothingYet /\ fd[p] # 0 /\ fd[p] = dir[KeyPath]
      BY <1>4 DEF InitWrite, DiskInv, InitAt, Unsaved
    <2>2. data' = [data EXCEPT ![fd[p]] = c] /\ made' = {c} /\ UNCHANGED <<dir, files, rotateVars>>
      BY <1>4, <2>1 DEF InitWrite, WriteKey, NothingYet
    <2>3. fd[p] \in File /\ fd[p] <= files
      BY <2>1, DirType DEF Exists
    <2>4. \A q \in Inits : InitAt(q)'
      BY <1>0, <1>4 DEF InitWrite, Goto, InitTypeOK, OneEach, InitAt, Unsaved
    <2>5. \A r \in Rotates : RotateAt(r)'
      BY <2>1, <2>2 DEF NothingYet, RotateAt, rotateVars
    <2>6. KeyKept'
      BY <1>0, <2>1, <2>2, <2>3, DirType DEF KeyKept, Exists, DiskType
    <2>7. Fresh'
      <3>1. \A f \in File : f > files => f # fd[p]
        BY <1>0, <2>3 DEF DiskType, File
      <3> QED BY <1>0, <2>2, <3>1 DEF DiskInv, Fresh, DiskType
    <2>8. AsideNamed'
      BY <2>1, <2>2 DEF NothingYet, AsideNamed, AsideNames, Whole, Exists
    <2> QED BY <2>4, <2>5, <2>6, <2>7, <2>8 DEF DiskInv
  <1> QED BY <1>1, <1>2, <1>3, <1>4 DEF InitStep

\* Until it opens the new file a rotation changes nothing that a name holds:
\* what the key path held is at its aside name before the key path goes
\* (cmd_init.go, moveAside).
LEMMA ReadWordsDisk ==
    ASSUME OneEach, TypeInv, DiskInv, NEW p \in Rotates, Read(p) \/ Words(p)
    PROVE  DiskInv'
  <1>0. pc \in [Rotates -> {"idle", "words", "link", "remove", "open", "write"}]
        /\ seen \in [Rotates -> KeyFile \cup {Torn}]
    BY DEF TypeInv, DiskType
  <1>1. UNCHANGED <<initVars, fileVars, fd>>
    BY DEF Read, Words
  <1>2. \A q \in Inits : main[q] \notin Unsaved
    <2>1. Read(p) => Whole(KeyPath)
      BY DEF Read
    <2>2. Words(p) => pc[p] # "idle"
      BY DEF Words
    <2> QED BY <2>1, <2>2, InitIsOver, DirType
  <1>3. \A q \in Inits : InitAt(q)'
    BY <1>1, <1>2 DEF InitAt, Unsaved, initVars
  <1>4. RotateAt(p)'
    <2>1. CASE Read(p)
      BY <1>0, <2>1 DEF Read, Then, RotateAt, Whole, Exists, fileVars
    <2>2. CASE Words(p)
      BY <1>0, <2>2 DEF Words, Then, End, DiskInv, RotateAt, Exists, fileVars
    <2> QED BY <2>1, <2>2
  <1>5. \A r \in Rotates : RotateAt(r)'
    BY <1>4 DEF OneEach
  <1>6. Fresh' /\ KeyKept' /\ AsideNamed'
    BY <1>1 DEF DiskInv, Fresh, KeyKept, AsideNamed, Whole, Exists, fileVars
  <1> QED BY <1>3, <1>5, <1>6 DEF DiskInv

LEMMA LinkDisk ==
    ASSUME OneEach, TypeInv, DiskInv, NEW p \in Rotates, Link(p)
    PROVE  DiskInv'
  <1>0. /\ pc \in [Rotates -> {"idle", "words", "link", "remove", "open", "write"}]
        /\ dir \in [Names -> 0..files]
    BY DEF TypeInv, DiskType
  <1>1. UNCHANGED <<initVars, data, files, made, fd, seen>> /\ pc[p] = "link"
    BY DEF Link
  <1>2. \A q \in Inits : InitAt(q)'
    <2>1. \A q \in Inits : main[q] \notin Unsaved
      BY <1>1, InitIsOver
    <2> QED BY <1>1, <2>1 DEF InitAt, Unsaved, initVars
  <1>3. Exists(KeyPath) /\ data[dir[KeyPath]] = seen[p]
    BY <1>1 DEF DiskInv, RotateAt
  <1>4. Fresh'
    BY <1>1 DEF DiskInv, Fresh
  <1>5. CASE ~Exists(Target(p)) /\ dir' = [dir EXCEPT ![Target(p)] = dir[KeyPath]] /\ Then(p, "remove")
    <2>1. Target(p) \in AsideNames /\ Target(p)[1] = seen[p].epoch
      BY <1>1, TargetIsAside
    <2>2. Target(p) \in Names /\ Target(p) # KeyPath /\ Target(p)' = Target(p)
      BY <1>1, <1>5, <2>1 DEF AsideNames, Target, Then
    <2>3. \A n \in Names : n # Target(p) => dir'[n] = dir[n]
      BY <1>0, <1>5
    <2>4. dir'[Target(p)] = dir[KeyPath] /\ dir'[KeyPath] = dir[KeyPath]
      BY <1>0, <1>5, <2>2, <2>3, DirType
    <2>5. \A r \in Rotates : RotateAt(r)'
      BY <1>0, <1>1, <1>3, <1>5, <2>2, <2>4 DEF OneEach, RotateAt, Exists, Then
    <2>6. KeyKept'
      BY <1>1, <1>5, <2>3 DEF DiskInv, KeyKept, Exists
    <2>7. AsideNamed'
      <3> SUFFICES ASSUME NEW n \in Names \ {KeyPath}, Whole(n)'
                   PROVE  data'[dir'[n]].epoch = n[1]
        BY DEF AsideNamed
      <3>1. CASE n = Target(p)
        BY <1>1, <1>3, <2>1, <2>4, <3>1
      <3>2. CASE n # Target(p)
        BY <1>1, <2>3, <3>2 DEF DiskInv, AsideNamed, Whole, Exists
      <3> QED BY <3>1, <3>2
    <2> QED BY <1>2, <1>4, <2>5, <2>6, <2>7 DEF DiskInv
  <1>6. CASE UNCHANGED dir /\ ((UNCHANGED pc) \/ End(p))
    <2>1. \A r \in Rotates : RotateAt(r)'
      BY <1>0, <1>1, <1>3, <1>6 DEF OneEach, RotateAt, Exists, End
    <2>2. KeyKept' /\ AsideNamed'
      BY <1>1, <1>6 DEF DiskInv, KeyKept, AsideNamed, Whole, Exists
    <2> QED BY <1>2, <1>4, <2>1, <2>2 DEF DiskInv
  <1> QED BY <1>5, <1>6 DEF Link

LEMMA RemoveDisk ==
    ASSUME OneEach, TypeInv, DiskInv, NEW p \in Rotates, Remove(p)
    PROVE  DiskInv'
  <1>0. /\ pc \in [Rotates -> {"idle", "words", "link", "remove", "open", "write"}]
        /\ dir \in [Names -> 0..files]
    BY DEF TypeInv, DiskType
  <1>1. UNCHANGED <<initVars, data, files, made, fd, seen>> /\ pc[p] = "remove"
    BY DEF Remove
  <1>2. \A q \in Inits : InitAt(q)'
    <2>1. \A q \in Inits : main[q] \notin Unsaved
      BY <1>1, InitIsOver
    <2> QED BY <1>1, <2>1 DEF InitAt, Unsaved, initVars
  <1>3. Exists(KeyPath) /\ data[dir[KeyPath]] = seen[p] /\ dir[Target(p)] = dir[KeyPath]
    BY <1>1 DEF DiskInv, RotateAt
  <1>4. dir' = [dir EXCEPT ![KeyPath] = 0] /\ Then(p, "open")
    BY <1>3 DEF Remove
  <1>5. Target(p) \in Names /\ Target(p) # KeyPath
    BY <1>1, TargetIsAside DEF AsideNames
  <1>6. dir'[KeyPath] = 0 /\ \A n \in Names : n # KeyPath => dir'[n] = dir[n]
    BY <1>0, <1>4, DirType
  <1>7. \A r \in Rotates : RotateAt(r)'
    BY <1>0, <1>4, <1>6 DEF OneEach, RotateAt, Exists, Then
  <1>8. KeyKept'
    <2> SUFFICES ASSUME NEW c \in made PROVE \E n \in Names : dir'[n] # 0 /\ data[dir'[n]] = c
      BY <1>1 DEF KeyKept, Exists
    <2>1. PICK n \in Names : Exists(n) /\ data[dir[n]] = c
      BY DEF DiskInv, KeyKept
    <2>2. CASE n = KeyPath
      BY <1>3, <1>5, <1>6, <2>1, <2>2 DEF Exists
    <2>3. CASE n # KeyPath
      BY <1>6, <2>1, <2>3 DEF Exists
    <2> QED BY <2>2, <2>3
  <1>9. Fresh' /\ AsideNamed'
    BY <1>1, <1>6 DEF DiskInv, Fresh, AsideNamed, Whole, Exists
  <1> QED BY <1>2, <1>7, <1>8, <1>9 DEF DiskInv

\* The new file is a new one: nothing that was moved aside is truncated.
LEMMA RotateOpenDisk ==
    ASSUME OneEach, TypeInv, DiskInv, NEW p \in Rotates, RotateOpen(p)
    PROVE  DiskInv'
  <1>0. /\ pc \in [Rotates -> {"idle", "words", "link", "remove", "open", "write"}]
        /\ dir \in [Names -> 0..files] /\ fd \in [Procs -> 0..files] /\ p \in Procs
        /\ files \in 0..MaxFiles
    BY DEF TypeInv, DiskType, Procs
  <1>1. UNCHANGED <<initVars, seen>> /\ pc[p] = "open" /\ Then(p, "write")
    BY DEF RotateOpen
  <1>2. \A q \in Inits : InitAt(q)'
    <2>1. \A q \in Inits : main[q] \notin Unsaved
      BY <1>1, InitIsOver
    <2> QED BY <1>1, <2>1 DEF InitAt, Unsaved, initVars
  <1>3. ~Exists(KeyPath)
    BY <1>1 DEF DiskInv, RotateAt
  <1>4. /\ files < MaxFiles /\ files' = files + 1
        /\ dir' = [dir EXCEPT ![KeyPath] = files']
        /\ fd' = [fd EXCEPT ![p] = files']
        /\ UNCHANGED <<data, made>>
    BY <1>3 DEF RotateOpen, OpenKey
  <1>5. dir'[KeyPath] = files' /\ \A n \in Names : n # KeyPath => dir'[n] = dir[n] /\ dir[n] # files'
    BY <1>0, <1>4, DirType
  <1>6. files' \in File /\ data[files'] = Torn
    BY <1>0, <1>4, KeyFilesAssumption DEF DiskInv, Fresh, File
  <1>7. \A r \in Rotates : RotateAt(r)'
    BY <1>0, <1>1, <1>4, <1>5, <1>6 DEF OneEach, RotateAt, Exists, Then, AsideNames, File
  <1>8. KeyKept'
    BY <1>3, <1>4, <1>5 DEF DiskInv, KeyKept, Exists
  <1>9. AsideNamed'
    BY <1>4, <1>5 DEF DiskInv, AsideNamed, Whole, Exists
  <1>10. Fresh'
    BY <1>0, <1>4 DEF DiskInv, Fresh, File
  <1> QED BY <1>2, <1>7, <1>8, <1>9, <1>10 DEF DiskInv

LEMMA RotateWriteDisk ==
    ASSUME OneEach, TypeInv, DiskInv, NEW p \in Rotates, RotateWrite(p)
    PROVE  DiskInv'
  <1> DEFINE c == [seen[p] EXCEPT !.epoch = @ + 1]
  <1>0. /\ pc \in [Rotates -> {"idle", "words", "link", "remove", "open", "write"}]
        /\ DOMAIN data = File /\ made \subseteq KeyFile
    BY DEF TypeInv, DiskType
  <1>1. /\ UNCHANGED <<initVars, seen, dir, files>> /\ pc[p] = "write" /\ End(p)
        /\ data' = [data EXCEPT ![fd[p]] = c] /\ made' = made \cup {c}
    BY DEF RotateWrite, WriteKey
  <1> HIDE DEF c
  <1>2. \A q \in Inits : InitAt(q)'
    <2>1. \A q \in Inits : main[q] \notin Unsaved
      BY <1>1, InitIsOver
    <2> QED BY <1>1, <2>1 DEF InitAt, Unsaved, initVars
  <1>3. /\ fd[p] # 0 /\ fd[p] = dir[KeyPath] /\ data[fd[p]] = Torn
        /\ \A n \in AsideNames : dir[n] # fd[p]
    BY <1>1 DEF DiskInv, RotateAt
  <1>4. fd[p] \in File /\ fd[p] <= files
    BY <1>3, DirType DEF Exists
  <1>5. data'[fd[p]] = c /\ \A f \in File : f # fd[p] => data'[f] = data[f]
    BY <1>0, <1>1, <1>4
  <1>6. \A r \in Rotates : RotateAt(r)'
    BY <1>0, <1>1 DEF OneEach, RotateAt, End
  <1>7. KeyKept'
    <2> SUFFICES ASSUME NEW k \in made' PROVE \E n \in Names : dir[n] # 0 /\ data'[dir[n]] = k
      BY <1>1 DEF KeyKept, Exists
    <2>1. CASE k = c
      BY <1>3, <1>5, <2>1, DirType
    <2>2. CASE k \in made
      <3>1. PICK n \in Names : Exists(n) /\ data[dir[n]] = k
        BY <2>2 DEF DiskInv, KeyKept
      <3>2. n # KeyPath
        BY <1>0, <1>3, <2>2, <3>1, TornIsNoKey
      <3> QED BY <1>3, <1>5, <3>1, <3>2, DirType DEF AsideNames, Exists
    <2> QED BY <1>1, <2>1, <2>2
  <1>8. AsideNamed'
    <2>1. \A n \in AsideNames : Exists(n) => data'[dir[n]] = data[dir[n]]
      BY <1>3, <1>5, DirType
    <2> QED BY <1>1, <2>1 DEF DiskInv, AsideNamed, AsideNames, Whole, Exists
  <1>9. Fresh'
    <2>1. \A f \in File : f > files => f # fd[p]
      BY <1>4, DirType DEF File
    <2> QED BY <1>1, <1>5, <2>1 DEF DiskInv, Fresh
  <1> QED BY <1>2, <1>6, <1>7, <1>8, <1>9 DEF DiskInv

\* A process cut off anywhere leaves the disk as it is, and a later rotation
\* starts over from what it reads.
LEMMA CrashDisk ==
    ASSUME OneEach, TypeInv, DiskInv, Crash
    PROVE  DiskInv'
  <1>0. /\ pc \in [Rotates -> {"idle", "words", "link", "remove", "open", "write"}]
        /\ InitTypeOK
    BY DEF TypeInv, DiskType
  <1>1. UNCHANGED fileVars
    BY DEF Crash
  <1>2. Fresh' /\ KeyKept' /\ AsideNamed'
    BY <1>1 DEF DiskInv, Fresh, KeyKept, AsideNamed, Whole, Exists, fileVars
  <1>3. ASSUME NEW p \in Rotates, pc[p] # "idle", End(p), UNCHANGED <<initVars, seen>>
        PROVE  DiskInv'
    <2>1. \A q \in Inits : InitAt(q)'
      <3>1. \A q \in Inits : main[q] \notin Unsaved
        BY <1>3, InitIsOver
      <3> QED BY <1>3, <3>1 DEF InitAt, Unsaved, initVars
    <2>2. \A r \in Rotates : RotateAt(r)'
      BY <1>0, <1>3 DEF OneEach, RotateAt, End
    <2> QED BY <1>2, <2>1, <2>2 DEF DiskInv
  <1>4. ASSUME NEW p \in Inits, main[p] \in {"open", "write"}, Goto(p, "close"),
               UNCHANGED rotateVars
        PROVE  DiskInv'
    <2>1. \A q \in Inits : InitAt(q)'
      BY <1>0, <1>4 DEF InitTypeOK, Goto, OneEach, InitAt, Unsaved
    <2>2. \A r \in Rotates : pc[r] = "idle"
      BY <1>4 DEF DiskInv, InitAt, NothingYet, Unsaved
    <2>3. \A r \in Rotates : RotateAt(r)'
      BY <1>4, <2>2 DEF RotateAt, rotateVars
    <2> QED BY <1>2, <2>1, <2>3 DEF DiskInv
  <1> QED BY <1>3, <1>4 DEF Crash

LEMMA PutBackDisk ==
    ASSUME OneEach, TypeInv, DiskInv, PutBack
    PROVE  DiskInv'
  <1>0. /\ dir \in [Names -> 0..files] /\ DOMAIN data = File /\ made \subseteq KeyFile
        /\ files \in 0..MaxFiles
    BY DEF TypeInv, DiskType
  <1>1. PICK m \in Names \ {KeyPath} :
             /\ Whole(m)
             /\ files' = files + 1
             /\ dir' = [dir EXCEPT ![KeyPath] = files']
             /\ data' = [data EXCEPT ![files'] = data[dir[m]]]
    BY DEF PutBack
  <1>2. /\ ~Whole(KeyPath) /\ files < MaxFiles /\ UNCHANGED <<initVars, made, rotateVars>>
        /\ \A r \in Rotates : pc[r] = "idle"
    BY DEF PutBack
  <1>3. \A q \in Inits : InitAt(q)'
    <2>1. \A q \in Inits : main[q] \notin Unsaved
      BY <1>1, InitIsOver
    <2> QED BY <1>2, <2>1 DEF InitAt, Unsaved, initVars
  <1>4. \A r \in Rotates : RotateAt(r)'
    BY <1>2 DEF RotateAt, rotateVars
  <1>5. files' \in Nat /\ \A n \in Names : n # KeyPath => dir'[n] = dir[n] /\ dir[n] # files'
    BY <1>0, <1>1, DirType
  <1>6. \A f \in File : f # files' => data'[f] = data[f]
    BY <1>0, <1>1
  <1>7. \A n \in Names : n # KeyPath /\ Exists(n) => data'[dir'[n]] = data[dir[n]]
    BY <1>5, <1>6, DirType
  <1>8. KeyKept'
    <2> SUFFICES ASSUME NEW c \in made PROVE \E n \in Names : dir'[n] # 0 /\ data'[dir'[n]] = c
      BY <1>2 DEF KeyKept, Exists
    <2>1. PICK n \in Names : Exists(n) /\ data[dir[n]] = c
      BY DEF DiskInv, KeyKept
    <2>2. n # KeyPath
      BY <1>0, <1>2, <2>1, TornIsNoKey DEF Whole
    <2> QED BY <1>5, <1>7, <2>1, <2>2 DEF Exists
  <1>9. AsideNamed'
    BY <1>5, <1>7 DEF DiskInv, AsideNamed, Whole, Exists
  <1>10. Fresh'
    BY <1>0, <1>1, <1>6 DEF DiskInv, Fresh, File
  <1> QED BY <1>3, <1>4, <1>8, <1>9, <1>10 DEF DiskInv

LEMMA StepDisk == OneEach /\ TypeInv /\ DiskInv /\ [Next]_vars => DiskInv'
  <1> SUFFICES ASSUME OneEach, TypeInv, DiskInv, [Next]_vars PROVE DiskInv'
    OBVIOUS
  <1>1. CASE UNCHANGED vars
    BY <1>1, DiskKept DEF vars, initVars
  <1>2. ASSUME NEW p \in Rotates, RotateStep(p) PROVE DiskInv'
    BY <1>2, ReadWordsDisk, LinkDisk, RemoveDisk, RotateOpenDisk, RotateWriteDisk
       DEF RotateStep
  <1> QED BY <1>1, <1>2, InitStepDisk, CrashDisk, PutBackDisk DEF Next

LEMMA SpecDisk == ASSUME OneEach PROVE Spec => []DiskInv
  <1>1. TypeInv /\ DiskInv /\ [Next]_vars => DiskInv'
    BY StepDisk
  <1> QED BY <1>1, InitDiskInv, SpecTypeInv, PTL DEF Spec

\* No key file is ever lost (cmd_init.go, moveAside: "so no file is ever
\* replaced"): with one init and one rotation at a time, every key file that
\* was ever complete is on disk, complete, whatever is cut off, for every
\* number of epochs, aside names and crashes.
THEOREM KeysAreKept == ASSUME OneEach PROVE Spec => []KeyKept
  <1>1. DiskInv => KeyKept
    BY DEF DiskInv
  <1> QED BY <1>1, SpecDisk, PTL

\* Under the same condition the aside names tell the truth (cmd_init.go,
\* doRotate: "old key: moved to %s").
THEOREM AsideNamesAreTrue == ASSUME OneEach PROVE Spec => []AsideNamed
  <1>1. DiskInv => AsideNamed
    BY DEF DiskInv
  <1> QED BY <1>1, SpecDisk, PTL
=============================================================================
