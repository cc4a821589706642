------------------------------ MODULE Redact ------------------------------
(***************************************************************************)
(* internal/cfg and internal/redact: a config file is parsed line by line  *)
(* and split into the document that goes on the ledger and the lines that  *)
(* go to the off-chain bundle; restore merges the two.                     *)
(*                                                                         *)
(* A text is a sequence of symbols: the bytes that end lines, white space, *)
(* "#" and a few kinds of words, one per outcome of the scanners; a stanza *)
(* header, a marker the tool writes, or a literal "\#" is one symbol.      *)
(***************************************************************************)
EXTENDS Naturals, SequencesExt

\* One stanza name for each way the classification treats a name.
neverStanzas     == {"node_seed"}
bundleStanzas    == {"validator_token", "ips_fixed", "cluster_nodes"}
onChainStanzas   == {"server", "validators", "ips"}
keyStanzas       == {"validators", "cluster_nodes", "validator_token"}
blobStanzas      == {"validator_token"}
hostValueStanzas == {"ips", "ips_fixed", "cluster_nodes"}
peerStanzas      == {"ips_fixed"}
Port             == "port_rpc"
StanzaNames      ==
    neverStanzas \cup bundleStanzas \cup onChainStanzas \cup {Port, "unknown"}

\* The symbol of the header "[name]".
HeaderOf(name) == <<"[", name>>
Headers        == {HeaderOf(n) : n \in StanzaNames}
Sym(s)         == <<s, "">>

LF      == Sym("LF")
CR      == Sym("CR")
Space   == Sym("space")
Hash    == Sym("#")
Plain   == Sym("plain")      \* nothing a scanner looks for
Hex     == Sym("hex")        \* a long hex or base64 run
Lan     == Sym("lan")        \* a private address or an internal name
Bare    == Sym("bare")       \* a name without a dot
Secret  == Sym("password=")  \* one of portSecretKeys, not an access list
Admin   == Sym("admin=loopback")
Listen  == Sym("ip=public")
Seed    == Sym("seed")
Pem     == Sym("-----begin")
Moved   == Sym("MovedMarker")
CMark   == Sym("CommentMarker")
Ends    == {LF, CR}
Markers == {Moved, CMark}    \* both start with MarkerPrefix, hence with "#"
Has(s, x) == \E i \in DOMAIN s : s[i] = x
-----------------------------------------------------------------------------
(* cfg: lines, kinds and stanzas.                                          *)

NoLine == [raw |-> <<>>, end |-> <<>>]

\* The scan reads one symbol more.  The last line takes it; "\n", "\r\n" and a
\* lone "\r" end the line, and another begins.
AddSymbol(lines, x) ==
    LET n == Len(lines)
    IN IF x \notin Ends THEN [lines EXCEPT ![n].raw = Append(@, x)]
       ELSE IF x = LF /\ n > 1 /\ lines[n].raw = <<>> /\ lines[n - 1].end = <<CR>>
         THEN [lines EXCEPT ![n - 1].end = <<CR, LF>>]
       ELSE Append([lines EXCEPT ![n].end = <<x>>], NoLine)

\* Every terminated line, then what follows the last terminator.
splitLines(doc) ==
    LET scan[j \in 0..Len(doc)] ==
          IF j = 0 THEN <<NoLine>> ELSE AddSymbol(scan[j - 1], doc[j])
    IN scan[Len(doc)]

Trim(s) ==
    LET ink == {i \in DOMAIN s : s[i] # Space}
    IN IF ink = {} THEN <<>> ELSE SubSeq(s, Min(ink), Max(ink))

looksLikeHeader(s) == s # <<>> /\ s[1] \in Headers /\ Last(s) \in Headers

\* The name between the outer brackets; one that holds brackets is unknown.
NameOf(s) == IF Len(s) = 1 THEN s[1][2] ELSE "unknown"

\* The position of the first "#", or 0.
inlineComment(s) ==
    LET at == {i \in DOMAIN s : s[i] = Hash \/ s[i] \in Markers}
    IN IF at = {} THEN 0 ELSE Min(at)

KindOf(raw) ==
    LET s == Trim(raw)
    IN CASE s = <<>> -> "blank"
         [] s # <<>> /\ s[1] = Hash -> "comment"
         [] s # <<>> /\ looksLikeHeader(s) -> "header"
         [] OTHER -> "value"

\* A setting and its inline comment.  The comment stays in the setting when
\* the rest would read as a header.
Setting(raw) ==
    LET s == Trim(raw)
        c == inlineComment(s)
        v == Trim(SubSeq(s, 1, c - 1))
    IN IF c > 1 /\ ~looksLikeHeader(v)
         THEN [value |-> v, comment |-> SubSeq(s, c, Len(s))]
         ELSE [value |-> s, comment |-> <<>>]

\* The stanza a line belongs to: the name of the last header so far.
StanzaAt(ls, i) ==
    LET heads == {n \in 1..i : KindOf(ls[n].raw) = "header"}
    IN IF heads = {} THEN "" ELSE NameOf(Trim(ls[Max(heads)].raw))

\* What Parse makes of one line.
Classify(l, stanza) ==
    LET kind == KindOf(l.raw)
        set == IF kind = "value" THEN Setting(l.raw) ELSE [value |-> <<>>, comment |-> <<>>]
    IN [kind |-> kind, raw |-> l.raw, end |-> l.end, stanza |-> stanza,
        value |-> set.value, comment |-> set.comment]

Parse(doc) ==
    LET ls == splitLines(doc)
    IN [i \in 1..Len(ls) |-> Classify(ls[i], StanzaAt(ls, i))]

Render(lines) == FlattenSeq([i \in DOMAIN lines |-> lines[i].raw \o lines[i].end])

\* The members of s at the places in K, in their order.
Nth(K, n) == CHOOSE k \in K : Cardinality({j \in K : j <= k}) = n
Those(s, K) == [n \in 1..Cardinality(K) |-> s[Nth(K, n)]]

\* File.Get and the stanza view: the names that appear, and the settings of one.
Names(f) == {f[i].stanza : i \in {i \in DOMAIN f : f[i].kind = "header"}}
SettingsOf(f, name) ==
    {i \in DOMAIN f : f[i].kind = "value" /\ f[i].stanza = name /\ f[i].value # <<>>}
Get(f, name) == Those(f, SettingsOf(f, name))
-----------------------------------------------------------------------------
(* redact: the scanners.                                                   *)

loopbackOnly(s) == \A i \in DOMAIN s : s[i] \in {Admin, Space}

hostReason(stanza, s) ==
    IF Has(s, Lan) THEN "internal hostname"
    ELSE IF stanza \in hostValueStanzas /\ s # <<>> /\ s[1] = Bare THEN "bare hostname" ELSE ""

\* Mutant of lineReason: host names are not looked at.
lineReasonNoHosts(stanza, line) ==
    LET s == Trim(line)
        key == IF stanza = Port /\ s # <<>> THEN s[1] ELSE Plain
    IN IF key \in {Secret, Admin} /\ ~loopbackOnly(s) THEN "access list or credential"
       ELSE IF stanza \notin keyStanzas /\ Has(s, Hex) THEN "long hex value"
       ELSE IF key = Listen THEN "listen address" ELSE ""

lineReason(stanza, line) ==
    LET s == Trim(line)
        key == IF stanza = Port /\ s # <<>> THEN s[1] ELSE Plain
    IN IF key \in {Secret, Admin} /\ ~loopbackOnly(s) THEN "access list or credential"
       ELSE IF stanza \notin keyStanzas /\ Has(s, Hex) THEN "long hex value"
       ELSE IF hostReason(stanza, s) # "" THEN hostReason(stanza, s)
       ELSE IF key = Listen THEN "listen address" ELSE ""

\* The stanza allowlist first, then the scanners.
valueReason(stanza, value) ==
    CASE stanza \in bundleStanzas -> "bundle-only stanza"
      [] stanza \notin bundleStanzas \cup onChainStanzas \cup {Port, ""} -> "not on the allowlist"
      [] stanza = "" -> "outside any stanza"
      [] OTHER -> lineReason(stanza, value)

valueReasonOpt(stanza, value, opt) ==
    IF opt.peers /\ stanza \in peerStanzas THEN lineReason(stanza, value)
    ELSE valueReason(stanza, value)

\* Mutant of refuse: a restored file with markers is taken.
refuseNoMarkers(f) ==
    \/ Names(f) \cap neverStanzas # {}
    \/ \E i \in DOMAIN f : /\ f[i].kind \in {"comment", "value"}
                           /\ \/ f[i].stanza \notin blobStanzas /\ Has(f[i].raw, Seed)
                              \/ Has(f[i].raw, Pem)

\* What stops the run: comments are read too.
refuse(f) ==
    \/ Names(f) \cap neverStanzas # {}
    \/ \E i \in DOMAIN f : /\ f[i].kind \in {"comment", "value"}
                           /\ \/ f[i].stanza \notin blobStanzas /\ Has(f[i].raw, Seed)
                              \/ Has(f[i].raw, Pem)
                              \/ \E m \in Markers : Has(f[i].raw, m)
-----------------------------------------------------------------------------
(* Split and Merge.                                                        *)

\* commentsMode and peersMode: where comments and fixed peers go.
Options == [comments : {"bundle", "onchain"}, peers : BOOLEAN]

\* The marker a line is replaced by, if it moves.
Fate(l, opt) ==
    CASE l.kind \in {"blank", "header"} -> <<>>
      [] l.kind = "comment" ->
           IF opt.comments = "bundle" \/ lineReason(l.stanza, l.raw) # "" THEN <<Moved>> ELSE <<>>
      [] l.kind = "value" /\ valueReasonOpt(l.stanza, l.value, opt) # "" -> <<Moved>>
      [] OTHER ->
           IF l.comment # <<>> /\ (opt.comments = "bundle" \/ lineReason(l.stanza, l.comment) # "")
             THEN <<CMark>> ELSE <<>>

\* What stays of a line on the ledger.
Left(l, fate) ==
    [l EXCEPT !.raw = CASE fate = <<>> -> @
                        [] fate = <<Moved>> -> fate
                        [] fate = <<CMark>> -> l.value \o <<Space, CMark>>]

\* Mutant of IsComment: a setting whose comment alone moved is not counted.
IsCommentLine(l, fate) == l.kind = "comment"

IsComment(l, fate) == l.kind = "comment" \/ fate = <<CMark>>

Split(f, opt) ==
    LET gone == {i \in DOMAIN f : Fate(f[i], opt) # <<>>}
        of(s) == {i \in gone : f[i].stanza = s}
    IN [onChain |-> [i \in DOMAIN f |-> Left(f[i], Fate(f[i], opt))],
        bundle  |-> Those(f, gone),
        moves   |-> [s \in {f[i].stanza : i \in gone} |->
                       [lines |-> Cardinality(of(s)),
                        comments |-> Cardinality({i \in of(s) : IsComment(f[i], Fate(f[i], opt))})]],
        role    |-> IF Get(f, "validator_token") # <<>> THEN "validator" ELSE "node"]

\* Mutant of isMarker: the marker that follows a setting is overlooked.
isMarkerWhole(l) == Trim(l.raw) = <<Moved>>

isMarker(l) ==
    LET s == Trim(l.raw) IN s # <<>> /\ (s = <<Moved>> \/ Last(s) = CMark)

\* Each marker takes the next line of the bundle and keeps its own line end;
\* what is left of the bundle follows.
Merge(onChain, bundle) ==
    LET rest == Those(bundle, {n \in DOMAIN bundle : bundle[n].raw # <<>> \/ bundle[n].end # <<>>})
        nth(i) == Cardinality({k \in 1..i : isMarker(onChain[k])})
        used == nth(Len(onChain))
    IN [i \in DOMAIN onChain |->
          IF isMarker(onChain[i]) /\ nth(i) <= Len(rest)
            THEN [rest[nth(i)] EXCEPT !.end = onChain[i].end] ELSE onChain[i]]
       \o SubSeq(rest, used + 1, Len(rest))
-----------------------------------------------------------------------------
(* Every short text, and every short line in every kind of stanza.         *)

CONSTANTS
    MaxText,   \* bound: symbols of a text of any shape
    MaxLine    \* bound: symbols after a header

VARIABLE text

Layout == {LF, CR, Space, Hash, Plain, Lan, HeaderOf("server"), HeaderOf("ips_fixed")}
Words  == {Hash, Plain, Hex, Lan, Bare, Secret, Admin, Listen, Seed, Pem}

TextInit == text = <<>>

\* A text of any layout grows by a symbol.
TypeLayout ==
    /\ Len(text) < MaxText /\ \A i \in DOMAIN text : text[i] \in Layout
    /\ \E x \in Layout : text' = Append(text, x)

\* One line after a header, with a plain line after it.
TypeHeader ==
    /\ text = <<>>
    /\ \E h \in Headers : text' = <<h, LF, Plain, CR>>
TypeWord ==
    /\ Len(text) \in 4..(MaxLine + 3) /\ text[1] \in Headers /\ SubSeq(text, 2, 4) = <<LF, Plain, CR>>
    /\ \E x \in Words : text' = Append(text, x)

TextNext == TypeLayout \/ TypeHeader \/ TypeWord
TextSpec == TextInit /\ [][TextNext]_text

File == Parse(text)
OnChainText(opt) == Render(Split(File, opt).onChain)
BundleText(opt)  == Render(Split(File, opt).bundle)

\* restore gives back the operator's bytes: the two documents are rendered,
\* stored, parsed again and merged (Split: "the result is the operator's
\* original bytes"), whatever the line ends and the comments.
RoundTrip ==
    ~refuse(File) => \A opt \in Options :
        Render(Merge(Parse(OnChainText(opt)), Parse(BundleText(opt)))) = text

\* What a line of the ledger document may show.
Harmless(l, opt) ==
    /\ ~Has(l.raw, Lan)
    /\ Has(l.raw, Hex) => l.stanza \in keyStanzas
    /\ l.kind = "value" =>
          /\ l.stanza \in onChainStanzas \cup {Port} \cup (IF opt.peers THEN peerStanzas ELSE {})
          /\ l.stanza = Port => l.value[1] # Secret
    /\ opt.comments = "bundle" /\ Has(l.raw, Hash) =>
          \E i \in DOMAIN l.raw : l.raw[i] = Hash /\ looksLikeHeader(Trim(SubSeq(l.raw, 1, i - 1)))

\* The ledger document, read again, shows no line a scanner objects to:
\* no private name outside headers, no long hex outside the key stanzas, no
\* setting of a stanza that is not allowed there, no credential of a port,
\* and no comment when comments go to the bundle, save where a comment is
\* part of a setting that reads as a header without it (Split, lineReason).
NothingPrivate ==
    ~refuse(File) => \A opt \in Options :
        \A l \in Range(Parse(OnChainText(opt))) :
            l.kind \in {"comment", "value"} /\ Trim(l.raw) # <<Moved>> => Harmless(l, opt)

\* What the node reads: settings by stanza, in order, markers being comments.
Shown(f, stanza) == {i \in SettingsOf(f, stanza) : f[i].value # <<Moved>>}
Values(f, K)     == [n \in DOMAIN Those(f, K) |-> Those(f, K)[n].value]

\* The settings of stanza s in f are those of the operator's file that stay.
Kept(f, s, opt) ==
    Values(f, Shown(f, s)) =
        Values(File, {i \in SettingsOf(File, s) : Fate(File[i], opt) # <<Moved>>})
NoneMissing(f, s) == Values(f, Shown(f, s)) = Values(File, SettingsOf(File, s))
Survives(f, moves, opt) ==
    /\ Names(f) = Names(File)
    /\ \A s \in Names(f) \cup {""} :
         /\ Kept(f, s, opt)
         /\ s \in DOMAIN moves => (moves[s].comments = moves[s].lines <=> NoneMissing(f, s))

\* Without its bundle a restored file has, in every stanza, exactly the
\* settings that did not move, in their order and under the same headers
\* ("a bundle-less restore boots"); and the report's Comments = Lines says
\* truly that no setting of the stanza is missing (Split, Move.Comments).
SettingsSurvive ==
    ~refuse(File) => \A opt \in Options :
        Survives(Parse(OnChainText(opt)), Split(File, opt).moves, opt)

\* A file restored without its bundle is never backed up as if it were whole:
\* if any line moved, Split refuses what is left.
GapsRefused ==
    ~refuse(File) => \A opt \in Options :
        Split(File, opt).bundle # <<>> => refuse(Parse(OnChainText(opt)))

\* The gaps of a restore without its bundle do no harm: the node reads all
\* other settings, and the gaps cannot pass for the file (Split, Merge).
GapsHarmless == SettingsSurvive /\ GapsRefused
=============================================================================
