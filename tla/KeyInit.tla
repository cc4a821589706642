------------------------------ MODULE KeyInit -------------------------------
(***************************************************************************)
(* init without its file operations (those are in KeyFiles): the re-entry  *)
(* check and the Ctrl-C guard.  While recovery words are on the screen and *)
(* not yet saved, a goroutine takes the interrupts: the first one only     *)
(* explains, the second one ends the process.  The main goroutine checks   *)
(* the operator's copy, has the key file written and releases the guard.   *)
(***************************************************************************)
EXTENDS Naturals

CONSTANTS
    Inits,       \* processes that run init
    Picks,       \* words or shares asked for (3 words, 1 share)
    Tries,       \* reentryAttempts (3)
    MaxPresses   \* bound: Ctrl-C pressed

ASSUME KeyInitAssumption ==
    Picks \in Nat \ {0} /\ Tries \in Nat \ {0} /\ MaxPresses \in Nat

VARIABLES
    main,     \* where cmdInit is
    asked,    \* words re-entered correctly
    try,      \* loop variable of checkReentry
    notify,   \* signal.Notify is in effect
    buffer,   \* signals in the channel (capacity 1)
    closed,   \* `done' is closed
    guard,    \* where interruptGuard is
    alive,    \* the process runs
    presses   \* Ctrl-C pressed so far

checkVars == <<asked, try>>
sigVars   == <<notify, buffer, closed>>
initVars  == <<main, checkVars, sigVars, guard, alive, presses>>

InitInit ==
    /\ main = [p \in Inits |-> "stat"]
    /\ asked = [p \in Inits |-> 0] /\ try = [p \in Inits |-> 1]
    /\ notify = [p \in Inits |-> FALSE] /\ buffer = [p \in Inits |-> 0]
    /\ closed = [p \in Inits |-> FALSE]
    /\ guard = [p \in Inits |-> "off"]
    /\ alive = [p \in Inits |-> TRUE]
    /\ presses = 0

Goto(p, l) == main' = [main EXCEPT ![p] = l]

-----------------------------------------------------------------------------
(***************************************************************************)
(* The operator and the runtime.                                           *)
(***************************************************************************)

\* A signal that finds the channel full is dropped; without Notify it ends
\* the process.
Press(p) ==
    /\ alive[p]
    /\ presses < MaxPresses
    /\ presses' = presses + 1
    /\ IF notify[p]
       THEN buffer' = [buffer EXCEPT ![p] = 1] /\ UNCHANGED alive
       ELSE alive' = [alive EXCEPT ![p] = FALSE] /\ UNCHANGED buffer
    /\ UNCHANGED <<main, checkVars, notify, closed, guard>>

-----------------------------------------------------------------------------
(***************************************************************************)
(* The main goroutine.                                                     *)
(***************************************************************************)

\* The words are on the screen: the guard starts.
StartGuard(p) ==
    /\ alive[p] /\ main[p] = "words"
    /\ Goto(p, "check")
    /\ notify' = [notify EXCEPT ![p] = TRUE]
    /\ guard' = [guard EXCEPT ![p] = "first"]
    /\ UNCHANGED <<checkVars, buffer, closed, alive, presses>>

\* --yes: no check and no guard.
SkipCheck(p) ==
    /\ alive[p] /\ main[p] = "words"
    /\ Goto(p, "open")
    /\ UNCHANGED <<checkVars, sigVars, guard, alive, presses>>

\* One word is accepted, one more try is given, or the check fails.
Accepted(p) ==
    /\ asked' = [asked EXCEPT ![p] = @ + 1]
    /\ try' = [try EXCEPT ![p] = 1]
    /\ Goto(p, IF asked[p] + 1 = Picks THEN "open" ELSE "check")

Again(p, k) == try' = [try EXCEPT ![p] = k] /\ UNCHANGED <<main, asked>>

CheckFails(p) == Goto(p, "close") /\ UNCHANGED checkVars

\* Mutant of Enter: the tries start over after the last one.
EnterForever(p) ==
    /\ alive[p] /\ main[p] = "check"
    /\ \/ Accepted(p)
       \/ Again(p, IF try[p] < Tries THEN try[p] + 1 ELSE 1)
       \/ CheckFails(p)
    /\ UNCHANGED <<sigVars, guard, alive, presses>>

\* A word matches, does not match, or the input ends.
Enter(p) ==
    /\ alive[p] /\ main[p] = "check"
    /\ \/ Accepted(p)
       \/ try[p] < Tries /\ Again(p, try[p] + 1)
       \/ CheckFails(p)
    /\ UNCHANGED <<sigVars, guard, alive, presses>>

\* A passphrase that differs, or an error of MkdirAll, returns early.
EarlyReturn(p) ==
    /\ alive[p] /\ main[p] = "open"
    /\ Goto(p, "close")
    /\ UNCHANGED <<checkVars, sigVars, guard, alive, presses>>

\* release: close(done), then signal.Stop.  It runs after the write, and
\* through the defer on every early return.  Without a guard it is empty.
CloseDone(p) ==
    /\ alive[p] /\ main[p] = "close"
    /\ Goto(p, "stop")
    /\ closed' = [closed EXCEPT ![p] = guard[p] # "off"]
    /\ UNCHANGED <<checkVars, notify, buffer, guard, alive, presses>>

StopNotify(p) ==
    /\ alive[p] /\ main[p] = "stop"
    /\ Goto(p, "report")
    /\ notify' = [notify EXCEPT ![p] = FALSE]
    /\ UNCHANGED <<checkVars, buffer, closed, guard, alive, presses>>

\* The closing question and the report; returning from main ends all.
Report(p) ==
    /\ alive[p] /\ main[p] = "report"
    /\ Goto(p, "returned")
    /\ alive' = [alive EXCEPT ![p] = FALSE]
    /\ UNCHANGED <<checkVars, sigVars, guard, presses>>

-----------------------------------------------------------------------------
(***************************************************************************)
(* interruptGuard.  A select with both cases ready takes either.           *)
(***************************************************************************)

\* Mutant of FirstSignal: the first Ctrl-C already ends init.
FirstSignalEnds(p) ==
    /\ alive[p] /\ guard[p] = "first"
    /\ buffer[p] = 1
    /\ buffer' = [buffer EXCEPT ![p] = 0]
    /\ guard' = [guard EXCEPT ![p] = "exit"]
    /\ UNCHANGED <<main, checkVars, notify, closed, alive, presses>>

FirstSignal(p) ==
    /\ alive[p] /\ guard[p] = "first"
    /\ buffer[p] = 1
    /\ buffer' = [buffer EXCEPT ![p] = 0]
    /\ guard' = [guard EXCEPT ![p] = "second"]
    /\ UNCHANGED <<main, checkVars, notify, closed, alive, presses>>

SecondSignal(p) ==
    /\ alive[p] /\ guard[p] = "second"
    /\ buffer[p] = 1
    /\ buffer' = [buffer EXCEPT ![p] = 0]
    /\ guard' = [guard EXCEPT ![p] = "exit"]
    /\ UNCHANGED <<main, checkVars, notify, closed, alive, presses>>

GuardDone(p) ==
    /\ alive[p] /\ guard[p] \in {"first", "second"}
    /\ closed[p]
    /\ guard' = [guard EXCEPT ![p] = "gone"]
    /\ UNCHANGED <<main, checkVars, sigVars, alive, presses>>

ExitNow(p) ==
    /\ alive[p] /\ guard[p] = "exit"
    /\ alive' = [alive EXCEPT ![p] = FALSE]
    /\ UNCHANGED <<main, checkVars, sigVars, guard, presses>>

-----------------------------------------------------------------------------
MainStep(p) ==
    \/ StartGuard(p) \/ SkipCheck(p) \/ Enter(p) \/ EarlyReturn(p)
    \/ CloseDone(p) \/ StopNotify(p) \/ Report(p)

GuardStep(p) == FirstSignal(p) \/ SecondSignal(p) \/ GuardDone(p) \/ ExitNow(p)

InitTypeOK ==
    /\ main \in [Inits -> {"stat", "words", "check", "open", "write", "close", "stop",
                           "report", "returned"}]
    /\ asked \in [Inits -> 0..Picks] /\ try \in [Inits -> 1..Tries]
    /\ notify \in [Inits -> BOOLEAN] /\ closed \in [Inits -> BOOLEAN]
    /\ alive \in [Inits -> BOOLEAN]
    /\ buffer \in [Inits -> 0..1] /\ presses \in 0..MaxPresses
    /\ guard \in [Inits -> {"off", "first", "second", "exit", "gone"}]

\* The process ended with the guard up and the words not yet saved.
WordsVoid(p) == ~alive[p] /\ guard[p] # "off" /\ main[p] \in {"check", "open", "write"}
=============================================================================
