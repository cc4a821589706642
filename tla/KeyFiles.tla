------------------------------ MODULE KeyFiles ------------------------------
(***************************************************************************)
(* The key file on disk under init (module KeyInit) and init --rotate:     *)
(* every system call is a step, processes interleave and may be cut off    *)
(* between any two.                                                        *)
(*                                                                         *)
(* A directory maps names to files.  A file holds a whole key file, given  *)
(* by the recovery key it comes from and its epoch, or a part of one after *)
(* the truncation of os.WriteFile.                                         *)
(***************************************************************************)
EXTENDS KeyInit

CONSTANTS
    Rotates,    \* processes that run init --rotate, again and again
    LastEpoch,  \* last epoch (MaxUint32 in the code, which refuses to pass it)
    Slots,      \* names moveAside tries (100)
    MaxFiles,   \* bound: files ever created
    MaxCrashes  \* bound: processes cut off

ASSUME KeyFilesAssumption ==
    /\ LastEpoch \in Nat /\ Slots \in Nat \ {0}
    /\ MaxFiles \in Nat /\ MaxCrashes \in Nat
    /\ Inits \cap Rotates = {} /\ "torn" \notin Inits

\* xrplbak.key, and xrplbak.key.epochE or xrplbak.key.epochE.K
KeyPath     == <<0, 0>>
Aside(e, k) == <<e, k>>
Names       == {KeyPath} \cup ((0..LastEpoch) \X (1..Slots))

VARIABLES
    dir,      \* the file each name stands for, 0 for none
    data,     \* content of each file: [root, epoch], or Torn
    files,    \* files ever created
    made,     \* contents ever completely written to the key path
    fd,       \* file os.WriteFile has open
    pc,       \* next system call of each rotation
    seen,     \* the key file a rotation read
    slot,     \* loop variable of moveAside
    crashes   \* processes cut off so far

fileVars   == <<dir, data, files, made>>
rotateVars == <<pc, seen, slot>>
vars       == <<initVars, fileVars, fd, rotateVars, crashes>>

Torn  == [root |-> "torn", epoch |-> 0]
File  == 1..MaxFiles
Procs == Inits \cup Rotates

Exists(n) == dir[n] # 0
Whole(n)  == Exists(n) /\ data[dir[n]] # Torn

Init ==
    /\ InitInit
    /\ dir = [n \in Names |-> 0]
    /\ data = [f \in File |-> Torn]
    /\ files = 0 /\ made = {} /\ crashes = 0
    /\ fd = [p \in Procs |-> 0]
    /\ pc = [p \in Rotates |-> "idle"]
    /\ seen = [p \in Rotates |-> Torn]
    /\ slot = [p \in Rotates |-> 1]

-----------------------------------------------------------------------------
(***************************************************************************)
(* os.WriteFile on the key path: create or truncate, then write.           *)
(***************************************************************************)

OpenKey(p) ==
    /\ \/ /\ Exists(KeyPath)
          /\ data' = [data EXCEPT ![dir[KeyPath]] = Torn]
          /\ fd' = [fd EXCEPT ![p] = dir[KeyPath]]
          /\ UNCHANGED <<dir, files>>
       \/ /\ ~Exists(KeyPath)
          /\ files < MaxFiles
          /\ files' = files + 1
          /\ dir' = [dir EXCEPT ![KeyPath] = files']
          /\ fd' = [fd EXCEPT ![p] = files']
          /\ UNCHANGED data
    /\ UNCHANGED made

WriteKey(p, content) ==
    /\ data' = [data EXCEPT ![fd[p]] = content]
    /\ made' = made \cup {content}
    /\ fd' = [fd EXCEPT ![p] = 0]
    /\ UNCHANGED <<dir, files>>

-----------------------------------------------------------------------------
(***************************************************************************)
(* init.                                                                   *)
(***************************************************************************)

\* "already exists ... init never overwrites a key file"; otherwise a new
\* recovery key is made and its words are shown.
InitStat(p) ==
    /\ alive[p] /\ main[p] = "stat"
    /\ IF Exists(KeyPath)
       THEN Goto(p, "returned") /\ alive' = [alive EXCEPT ![p] = FALSE]
       ELSE Goto(p, "words") /\ UNCHANGED alive
    /\ UNCHANGED <<checkVars, sigVars, guard, presses, fileVars, fd, rotateVars, crashes>>

InitOpen(p) ==
    /\ alive[p] /\ main[p] = "open"
    /\ OpenKey(p)
    /\ Goto(p, "write")
    /\ UNCHANGED <<checkVars, sigVars, guard, alive, presses, rotateVars, crashes>>

InitWrite(p) ==
    /\ alive[p] /\ main[p] = "write"
    /\ WriteKey(p, [root |-> p, epoch |-> 0])
    /\ Goto(p, "close")
    /\ UNCHANGED <<checkVars, sigVars, guard, alive, presses, rotateVars, crashes>>

-----------------------------------------------------------------------------
(***************************************************************************)
(* init --rotate.                                                          *)
(***************************************************************************)

Then(p, l) == pc' = [pc EXCEPT ![p] = l] /\ UNCHANGED slot

End(p) == pc' = [pc EXCEPT ![p] = "idle"] /\ slot' = [slot EXCEPT ![p] = 1]

\* No key file, or one that does not decode, ends the command.
Read(p) ==
    /\ pc[p] = "idle"
    /\ Whole(KeyPath)
    /\ seen' = [seen EXCEPT ![p] = data[dir[KeyPath]]]
    /\ Then(p, "words")
    /\ UNCHANGED <<initVars, fileVars, fd, crashes>>

\* Mutant of Words: the key file is rewritten in place.
WordsInPlace(p) ==
    /\ pc[p] = "words"
    /\ (seen[p].epoch < LastEpoch /\ Then(p, "open")) \/ End(p)
    /\ UNCHANGED <<initVars, fileVars, fd, seen, crashes>>

\* Recovery words that match, the last epoch refused, a passphrase.
Words(p) ==
    /\ pc[p] = "words"
    /\ (seen[p].epoch < LastEpoch /\ Then(p, "link")) \/ End(p)
    /\ UNCHANGED <<initVars, fileVars, fd, seen, crashes>>

\* Mutant of Target: the old file is named after the new epoch.
TargetNextEpoch(p) ==
    Aside(IF seen[p].epoch < LastEpoch THEN seen[p].epoch + 1 ELSE 0, slot[p])

Target(p) == Aside(seen[p].epoch, slot[p])

\* moveAside: os.Link fails when the target exists and the next name is tried.
Link(p) ==
    /\ pc[p] = "link"
    /\ \/ /\ Exists(KeyPath) /\ ~Exists(Target(p))
          /\ dir' = [dir EXCEPT ![Target(p)] = dir[KeyPath]]
          /\ Then(p, "remove")
       \/ /\ Exists(KeyPath) /\ Exists(Target(p)) /\ slot[p] < Slots
          /\ slot' = [slot EXCEPT ![p] = @ + 1]
          /\ UNCHANGED <<dir, pc>>
       \/ /\ ~Exists(KeyPath) \/ (Exists(Target(p)) /\ slot[p] = Slots)
          /\ End(p)
          /\ UNCHANGED dir
    /\ UNCHANGED <<initVars, data, files, made, fd, seen, crashes>>

Remove(p) ==
    /\ pc[p] = "remove"
    /\ IF Exists(KeyPath)
       THEN dir' = [dir EXCEPT ![KeyPath] = 0] /\ Then(p, "open")
       ELSE UNCHANGED dir /\ End(p)
    /\ UNCHANGED <<initVars, data, files, made, fd, seen, crashes>>

RotateOpen(p) ==
    /\ pc[p] = "open"
    /\ OpenKey(p)
    /\ Then(p, "write")
    /\ UNCHANGED <<initVars, seen, crashes>>

RotateWrite(p) ==
    /\ pc[p] = "write"
    /\ WriteKey(p, [seen[p] EXCEPT !.epoch = @ + 1])
    /\ End(p)
    /\ UNCHANGED <<initVars, seen, crashes>>

-----------------------------------------------------------------------------
\* A crash, a kill or an I/O error between two system calls.
Crash ==
    /\ crashes < MaxCrashes
    /\ crashes' = crashes + 1
    /\ \/ \E p \in Rotates :
             /\ pc[p] # "idle"
             /\ End(p)
             /\ fd' = [fd EXCEPT ![p] = 0]
             /\ UNCHANGED <<initVars, seen>>
       \/ \E p \in Inits :
             /\ alive[p] /\ main[p] \in {"open", "write"}
             /\ Goto(p, "close")
             /\ fd' = [fd EXCEPT ![p] = 0]
             /\ UNCHANGED <<checkVars, sigVars, guard, alive, presses, rotateVars>>
    /\ UNCHANGED fileVars

\* With no usable key file left the operator copies one that was moved aside.
PutBack ==
    /\ ~Whole(KeyPath)
    /\ \A p \in Rotates : pc[p] = "idle"
    /\ \A p \in Inits : ~alive[p]
    /\ files < MaxFiles
    /\ \E n \in Names \ {KeyPath} :
          /\ Whole(n)
          /\ files' = files + 1
          /\ dir' = [dir EXCEPT ![KeyPath] = files']
          /\ data' = [data EXCEPT ![files'] = data[dir[n]]]
    /\ UNCHANGED <<initVars, made, fd, rotateVars, crashes>>

-----------------------------------------------------------------------------
Alone(A) == A /\ UNCHANGED <<fileVars, fd, rotateVars, crashes>>

InitStep(p) == InitStat(p) \/ InitOpen(p) \/ InitWrite(p) \/ Alone(MainStep(p))

RotateStep(p) ==
    Read(p) \/ Words(p) \/ Link(p) \/ Remove(p) \/ RotateOpen(p) \/ RotateWrite(p)

Next ==
    \/ \E p \in Inits : InitStep(p) \/ Alone(GuardStep(p)) \/ Alone(Press(p))
    \/ \E p \in Rotates : RotateStep(p)
    \/ Crash
    \/ PutBack

Spec == Init /\ [][Next]_vars

\* The operator answers, and both goroutines of init are scheduled.
FairSpec ==
    /\ Spec
    /\ \A p \in Inits : WF_vars(InitStep(p)) /\ WF_vars(Alone(GuardStep(p)))

-----------------------------------------------------------------------------
(***************************************************************************)
(* Properties.                                                             *)
(***************************************************************************)

KeyFile == [root : Inits, epoch : 0..LastEpoch]

TypeOK ==
    /\ InitTypeOK
    /\ dir \in [Names -> 0..files]
    /\ DOMAIN data = File /\ \A f \in File : data[f] # Torn => data[f] \in KeyFile
    /\ files \in 0..MaxFiles /\ crashes \in 0..MaxCrashes
    /\ made \subseteq KeyFile
    /\ fd \in [Procs -> 0..files]
    /\ pc \in [Rotates -> {"idle", "words", "link", "remove", "open", "write"}]
    /\ slot \in [Rotates -> 1..Slots]

\* A key file that was once complete is on disk, complete, at every later
\* moment, whatever is cut off and however often the operator puts an old
\* one back (cmd_init.go, moveAside: "so no file is ever replaced").
KeyKept == \A c \in made : \E n \in Names : Exists(n) /\ data[dir[n]] = c

\* The names tell the truth: what was moved aside as epoch E is the key file
\* of epoch E (cmd_init.go, doRotate: "old key: moved to %s").
AsideNamed ==
    \A n \in Names \ {KeyPath} : Whole(n) => data[dir[n]].epoch = n[1]

\* One Ctrl-C never voids words the operator is copying: from the start of
\* the guard to the end of the write it takes two to stop init
\* (cmd_init.go, interruptGuard: "The first Ctrl-C only explains. The second
\* stops").
OnePressSurvives == \A p \in Inits : WordsVoid(p) => presses >= 2

\* init comes to an end whatever is typed and pressed (cmd_init.go,
\* checkReentry gives each word reentryAttempts tries).
InitEnds == \A p \in Inits : <>(~alive[p])
=============================================================================
