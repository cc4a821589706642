------------------------------- MODULE MCPlan -------------------------------
(***************************************************************************)
(* The parts of a backup that are computed before anything is sent, or     *)
(* after everything was read: redaction, sizes and fees, the container and *)
(* the bundle stream, and the transactions' binary form.  They share no    *)
(* state; a behaviour is about one of them.                                *)
(***************************************************************************)
EXTENDS Redact, BatchFees, Formats, Codec

VARIABLE topic

planVars == <<topic, text, len, feesVars, formatVars, tx>>

Topics == {"text", "sizes", "fees", "formats", "codec"}

Init ==
    /\ topic \in Topics
    /\ IF topic = "text" THEN TextInit ELSE text = <<>>
    /\ SizesInit
    /\ IF topic = "fees" THEN FeesInit
       ELSE /\ c = 0 /\ plain = 1 /\ grown = 0 /\ stage = "start"
            /\ g = 0 /\ next = 0 /\ paid = 0
    /\ IF topic = "formats" THEN FormatInit
       ELSE /\ entries = <<>> /\ sealed = 0 /\ faults = 0 /\ stream = SealBundle("this", <<>>)
    /\ IF topic = "codec" THEN CodecInit ELSE tx = NoTx

TextStep   == topic = "text" /\ TextNext /\ UNCHANGED <<topic, len, feesVars, formatVars, tx>>
SizesStep  == topic = "sizes" /\ Longer /\ UNCHANGED <<topic, text, feesVars, formatVars, tx>>
FeesStep   == topic = "fees" /\ FeesNext /\ UNCHANGED <<topic, text, len, formatVars, tx>>
FormatStep == topic = "formats" /\ FormatNext /\ UNCHANGED <<topic, text, len, feesVars, tx>>
CodecStep  == topic = "codec" /\ CodecNext /\ UNCHANGED <<topic, text, len, feesVars, formatVars>>

Next == TextStep \/ SizesStep \/ FeesStep \/ FormatStep \/ CodecStep

Spec == Init /\ [][Next]_planVars
=============================================================================
