------------------------------ MODULE Formats ------------------------------
(***************************************************************************)
(* The container of files (internal/container, Encode and Decode) and the  *)
(* bundle stream it is sealed into (internal/crypto/aead.go, SealBundle    *)
(* and OpenBundle).  A stream may come back from disk changed.             *)
(*                                                                         *)
(* A frame opens only with the key, the nonce and the additional data it   *)
(* was sealed with: a sealed frame is the record of these and its plain    *)
(* text.  Key and additional data come from the backup id.                 *)
(***************************************************************************)
EXTENDS Naturals, SequencesExt

CONSTANTS
    MaxEntries,  \* bound: entries of a container
    MaxFaults    \* bound: changes to a stream

VARIABLES
    entries,     \* what backup.Build puts into a container, in its order
    sealed,      \* length of the plain text of a bundle
    stream,      \* the bundle, as it is on disk
    faults       \* changes made to it

formatVars == <<entries, sealed, stream, faults>>

\* The bundle's plain text is counted in bytes; a frame holds two.
FrameLen == 2
Byte(id, i) == <<id, i>>
PlainOf(id, n) == [i \in 1..n |-> Byte(id, i)]
Failed  == [ok |-> FALSE]
Opened(x) == [ok |-> TRUE, data |-> x]
-----------------------------------------------------------------------------
(* container.                                                              *)

Paths == {1, 2, 3}                   \* in the order of the strings
Modes == {420, 4096 + 420}           \* 0o644, with a bit above 0o7777
Files == [path : Paths, mode : Modes, data : {<<>>, <<"x">>, <<"y", "x">>}]
Header(f) == [path |-> f.path, mode |-> f.mode % 4096, size |-> Len(f.data), sum |-> f.data]

\* Sorted by path, each path once: magic, count, and each entry's header
\* followed by its data.
Encode(files) ==
    LET sorted == SortSeq(files, LAMBDA f, h : f.path < h.path)
    IN IF \E i, j \in DOMAIN files : i # j /\ files[i].path = files[j].path THEN Failed
       ELSE Opened(<<"XBC1", Len(sorted)>>
                     \o FlattenSeq([i \in DOMAIN sorted |-> <<Header(sorted[i])>> \o sorted[i].data]))

\* Mutant of AllRead: what follows the last entry is not looked at.
AllReadAnyhow(rest, n) == n = 0

\* The loop is done: no entry is due, and nothing is left.
AllRead(rest, n) == n = 0 /\ rest = <<>>

\* n entries, or the error of the first that is cut short or damaged.
RECURSIVE DecodeEntries(_, _)
DecodeEntries(rest, n) ==
    IF n = 0 \/ rest = <<>>
      THEN IF AllRead(rest, n) THEN Opened(<<>>) ELSE Failed
      ELSE LET h == rest[1]
               data == SubSeq(rest, 2, 1 + h.size)
           IN IF h.size > Len(rest) - 1 \/ data # h.sum THEN Failed
              ELSE LET more == DecodeEntries(SubSeq(rest, 2 + h.size, Len(rest)), n - 1)
                   IN IF ~more.ok THEN Failed
                      ELSE Opened(<<[path |-> h.path, mode |-> h.mode, data |-> data]>> \o more.data)

Decode(b) == IF Len(b) < 2 THEN Failed ELSE DecodeEntries(SubSeq(b, 3, Len(b)), b[2])
-----------------------------------------------------------------------------
(* The bundle stream.                                                      *)

\* Frame i of m, counted from 0.
SealFrame(id, i, m, plain) ==
    [id |-> id, index |-> i, final |-> i = m - 1, whole |-> TRUE,
     data |-> SubSeq(plain, i * FrameLen + 1,
                     IF (i + 1) * FrameLen > Len(plain) THEN Len(plain) ELSE (i + 1) * FrameLen)]

\* An empty plain text still has its one, final frame.
SealBundle(id, plain) ==
    LET m == IF plain = <<>> THEN 1 ELSE (Len(plain) + FrameLen - 1) \div FrameLen
    IN [id |-> id, frames |-> [i \in 1..m |-> SealFrame(id, i - 1, m, plain)]]

\* Mutant of FrameOpens: the nonce has no final flag.
FrameOpensOpenEnd(f, id, i, last) == f.whole /\ f.id = id /\ f.index = i

FrameOpens(f, id, i, last) == f.whole /\ f.id = id /\ f.index = i /\ f.final = last

\* The header names the backup; the frame that ends the stream is the final
\* one.
OpenBundle(id, s) ==
    IF \/ s.id # id \/ s.frames = <<>>
       \/ \E i \in DOMAIN s.frames : ~FrameOpens(s.frames[i], id, i - 1, i = Len(s.frames))
      THEN Failed
      ELSE Opened(FlattenSeq([i \in DOMAIN s.frames |-> s.frames[i].data]))
-----------------------------------------------------------------------------
MaxPlain == 5   \* bound: up to three frames, the last of which may be full

FormatInit ==
    /\ entries = <<>>
    /\ faults = 0
    /\ sealed \in 0..MaxPlain
    /\ stream = SealBundle("this", PlainOf("this", sealed))

\* Build adds a file.
AddEntry ==
    /\ Len(entries) < MaxEntries /\ faults = 0
    /\ \E f \in Files : entries' = Append(entries, f)
    /\ UNCHANGED <<sealed, stream, faults>>

Frames == stream.frames
Change(frames) ==
    /\ faults < MaxFaults /\ entries = <<>>
    /\ stream' = [stream EXCEPT !.frames = frames]
    /\ faults' = faults + 1
    /\ UNCHANGED <<entries, sealed>>

\* The file loses its end, at a frame or inside one.
CutStream ==
    \E i \in DOMAIN Frames :
        \/ Change(SubSeq(Frames, 1, i - 1))
        \/ Change(Append(SubSeq(Frames, 1, i - 1), [Frames[i] EXCEPT !.whole = FALSE]))
DropFrame   == \E i \in DOMAIN Frames : Change(RemoveAt(Frames, i))
RepeatFrame == \E i \in DOMAIN Frames : Change(InsertAt(Frames, i, Frames[i]))
SwapFrames  ==
    \E i, j \in DOMAIN Frames :
        i < j /\ Change([Frames EXCEPT ![i] = Frames[j], ![j] = Frames[i]])

\* A frame of another backup's bundle stands where one of this stream did, or
\* after it.
ForeignFrame ==
    \E n \in 1..MaxPlain : \E i \in 1..(Len(Frames) + 1) :
        LET other == SealBundle("other", PlainOf("other", n)).frames
        IN /\ i \in DOMAIN other
           /\ Change([m \in DOMAIN Frames \cup {i} |-> IF m = i THEN other[i] ELSE Frames[m]])

FormatNext ==
    AddEntry \/ CutStream \/ DropFrame \/ RepeatFrame \/ SwapFrames \/ ForeignFrame

\* The same files give the same bytes in whatever order they are named, the
\* backup id being made of them; Decode gives them back, and refuses a
\* container that lacks its end or has more than its entries (Encode, Decode).
ContainerRoundTrip ==
    LET e == Encode(entries)
    IN IF Cardinality({entries[i].path : i \in DOMAIN entries}) < Len(entries) THEN ~e.ok
       ELSE /\ e = Encode(Reverse(entries))
            /\ LET d == Decode(e.data)
               IN d.ok /\ ToSet(d.data) = {[f EXCEPT !.mode = @ % 4096] : f \in ToSet(entries)}
            /\ \A n \in 0..(Len(e.data) - 1) : ~Decode(SubSeq(e.data, 1, n)).ok
            /\ ~Decode(Append(e.data, "x")).ok

\* A bundle opens to all of its plain text or not at all, however its frames
\* were cut, dropped, repeated, swapped or replaced, and an unchanged one
\* opens (SealBundle, OpenBundle).
BundleWhole ==
    LET o == OpenBundle("this", stream)
    IN /\ o.ok => o.data = PlainOf("this", sealed)
       /\ faults = 0 => o.ok

\* Files come back from a container and from a bundle exactly as they went
\* in, or not at all (Encode, Decode, SealBundle, OpenBundle).
FilesWhole == ContainerRoundTrip /\ BundleWhole
=============================================================================
