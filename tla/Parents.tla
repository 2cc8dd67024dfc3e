------------------------------- MODULE Parents ------------------------------
(***************************************************************************)
(* extract_md and extract_txt: a document becomes parents, a preamble and  *)
(* a section per "## " heading, or groups of paragraphs when there is no   *)
(* heading, and a parent over MAX_PARENT_CHARS is split at paragraphs,     *)
(* then at lines, then anywhere.  A step is a turn of one of the loops.    *)
(*                                                                         *)
(* A letter of a document is "x", a newline, or the mark of a heading, "#" *)
(* or "##" with the space behind it.  A text is the sequence of the        *)
(* positions of its letters, with 0 for a newline, so that a lost, a       *)
(* repeated and an equal letter differ.                                    *)
(***************************************************************************)
EXTENDS Integers, SequencesExt

CONSTANTS
    MaxParent,      \* MAX_PARENT_CHARS
    Target,         \* target_chars of extract_txt
    PreambleMin,    \* PREAMBLE_MIN_CHARS
    MaxLetters      \* bound: letters of a document

ASSUME ParentSizesAssumption == {MaxParent, Target, PreambleMin, MaxLetters} \subseteq Nat \ {0}

VARIABLES
    document,   \* the text
    start,      \* where the first section begins, 0 in extract_txt
    preamble,   \* what _build_preamble returned, as a list of one or none
    step,       \* the loop that runs
    rest,       \* what it has not read of its text
    buf,        \* what it has packed since the last piece
    bufLen,     \* buf_len of extract_txt
    raw,        \* parents that have not been through the cap
    todo,       \* pieces of the parent that is split, not yet seen at this tier
    done,       \* its pieces at this tier
    parents     \* what the document is split into

sourceVars == <<document, start, preamble>>
parentVars == <<sourceVars, step, rest, buf, bufLen, raw, todo, done, parents>>

ParentInit ==
    /\ document = <<>> /\ start = 0 /\ preamble = <<>>
    /\ step = "idle" /\ rest = <<>> /\ buf = <<>> /\ bufLen = 0
    /\ raw = <<>> /\ todo = <<>> /\ done = <<>> /\ parents = <<>>

-----------------------------------------------------------------------------
Letters == {"x", "\n", "#", "##"}

Tiers == {"paragraphs", "lines", "slices"}

Text(a, b) == [i \in 1 .. b - a + 1 |-> IF document[a + i - 1] = "\n" THEN 0 ELSE a + i - 1]

\* The first place of a text that is in S, or the one behind the text.
FirstIn(S, text) == Min(S \cup {Len(text) + 1})

Strip(text) ==
    LET words == {i \in DOMAIN text : text[i] # 0}
    IN  SubSeq(text, FirstIn(words, text), Max(words \cup {0}))

FirstLine(text) == SubSeq(text, 1, FirstIn({i \in DOMAIN text : text[i] = 0}, text) - 1)

Headings(mark) == {p \in DOMAIN document : document[p] = mark /\ (p = 1 \/ document[p - 1] = "\n")}

\* Where the running loop cuts: before a heading, where a run of newlines
\* begins, at a newline, after MaxParent letters.
Cuts == CASE step = "sections" -> {i \in 2 .. Len(rest) : rest[i] \in Headings("##")}
          [] step \in {"groups", "paragraphs"} -> {i \in 1 .. Len(rest) - 1 : rest[i] = 0 /\ rest[i + 1] = 0}
          [] step = "lines" -> {i \in DOMAIN rest : rest[i] = 0}
          [] OTHER -> {MaxParent + 1} \cap DOMAIN rest

CutAt == FirstIn(Cuts, rest)

Part == SubSeq(rest, 1, CutAt - 1)

\* Newlines at a cut go with it: there is one alone where lines are cut, since
\* what has an empty line was cut there before.
RestAt == FirstIn({i \in CutAt .. Len(rest) : rest[i] # 0}, rest)

Remains == SubSeq(rest, RestAt, Len(rest))

Joiner == CASE step = "lines" -> <<0>>
            [] step = "slices" -> <<>>
            [] OTHER -> <<0, 0>>

Grown == IF buf = <<>> THEN Part ELSE buf \o Joiner \o Part

WithBuffer == IF buf = <<>> THEN done ELSE Append(done, buf)

-----------------------------------------------------------------------------
(* _build_preamble *)

\* Where the next word is before the first section, if there is one.
WordAfter(p) == Min({q \in p + 1 .. start - 1 : document[q] # "\n"} \cup {start})

\* The first H1 that has a title; the title may be on a later line than the mark.
Tops == {p \in Headings("#") : WordAfter(p) < start}

TitleAt == WordAfter(Min(Tops))

TitleEnd == Min({q \in TitleAt .. start - 1 : document[q] = "\n"} \cup {start}) - 1

\* What is before the mark and behind the title.  Of the blank lines that
\* follow the title one newline is left.
Body == IF Tops = {} THEN Strip(Text(1, start - 1))
        ELSE Strip(Text(1, Min(Tops) - 1) \o <<0>> \o Strip(Text(TitleEnd + 1, start - 1)))

\* The title, without its mark, goes to the top of a body that is worth it.
BuildPreamble ==
    LET title == IF Tops = {} THEN <<>> ELSE Text(TitleAt, TitleEnd)
    IN  IF Len(Body) < PreambleMin THEN <<>>
        ELSE <<[kind |-> "preamble", title |-> title,
                text |-> IF title = <<>> THEN Body ELSE title \o <<0>> \o Body]>>

-----------------------------------------------------------------------------
\* A document is extracted as Markdown, which leaves one without a heading to
\* extract_txt, or as plain text.
ExtractDocument ==
    /\ document = <<>>
    /\ \E n \in 1 .. MaxLetters : document' \in [1 .. n -> Letters]
    /\ \/ /\ Headings("##")' # {}
          /\ start' = Min(Headings("##")')
          /\ preamble' = BuildPreamble'
          /\ step' = "sections"
          /\ rest' = Text(start, Len(document))'
       \/ /\ start' = 0
          /\ preamble' = <<>>
          /\ step' = "groups"
          /\ rest' = IF \A p \in DOMAIN document' : document'[p] = "\n" THEN <<>>
                     ELSE Text(1, Len(document))'
    /\ raw' = preamble'
    /\ UNCHANGED <<buf, bufLen, todo, done, parents>>

Section == LET text == Strip(Part)
           IN  [kind |-> "section", title |-> FirstLine(text), text |-> text]

TakeSection ==
    /\ step = "sections" /\ rest # <<>>
    /\ raw' = Append(raw, Section)
    /\ rest' = Remains
    /\ UNCHANGED <<sourceVars, step, buf, bufLen, todo, done, parents>>

\* A paragraph is packed behind the others as long as they are about Target;
\* a blank one is left out.
PackParagraph ==
    /\ step = "groups" /\ rest # <<>>
    /\ IF Strip(Part) = <<>> THEN UNCHANGED <<buf, bufLen>>
       ELSE /\ buf = <<>> \/ bufLen + Len(Part) + 2 <= Target
            /\ buf' = Grown /\ bufLen' = bufLen + Len(Part) + 2
    /\ rest' = Remains
    /\ UNCHANGED <<sourceVars, step, raw, todo, done, parents>>

GroupAdded == Append(raw, [kind |-> "paragraph_group", title |-> <<>>, text |-> Strip(buf)])

\* Otherwise it begins a new group.
StartGroup ==
    /\ step = "groups" /\ rest # <<>> /\ Strip(Part) # <<>>
    /\ buf # <<>> /\ bufLen + Len(Part) + 2 > Target
    /\ raw' = GroupAdded
    /\ buf' = Part /\ bufLen' = Len(Part)
    /\ rest' = Remains
    /\ UNCHANGED <<sourceVars, step, todo, done, parents>>

EndOfText ==
    /\ step \in {"sections", "groups"} /\ rest = <<>>
    /\ raw' = IF buf = <<>> THEN raw ELSE GroupAdded
    /\ buf' = <<>> /\ bufLen' = 0
    /\ step' = "cap"
    /\ UNCHANGED <<sourceVars, rest, todo, done, parents>>

-----------------------------------------------------------------------------
(* _enforce_parent_cap *)

KeepParent ==
    /\ step = "cap" /\ raw # <<>> /\ Len(Head(raw).text) <= MaxParent
    /\ parents' = Append(parents, Head(raw))
    /\ raw' = Tail(raw)
    /\ UNCHANGED <<sourceVars, step, rest, buf, bufLen, todo, done>>

SplitOversized ==
    /\ step = "cap" /\ raw # <<>> /\ Len(Head(raw).text) > MaxParent
    /\ rest' = Head(raw).text
    /\ step' = "paragraphs"
    /\ UNCHANGED <<sourceVars, buf, bufLen, raw, todo, done, parents>>

\* _greedy_pack: parts are packed as long as they fit.
PackPart ==
    /\ step \in Tiers /\ rest # <<>> /\ Len(Grown) <= MaxParent
    /\ buf' = Grown
    /\ rest' = Remains
    /\ UNCHANGED <<sourceVars, step, bufLen, raw, todo, done, parents>>

\* Mutant: the buffer is not flushed before a part that does not fit.
StartPieceUnflushed ==
    /\ step \in Tiers /\ rest # <<>> /\ Len(Grown) > MaxParent
    /\ buf' = Part
    /\ rest' = Remains
    /\ UNCHANGED <<sourceVars, step, bufLen, raw, todo, done, parents>>

\* A part that is too long by itself stays so until the next tier.
StartPiece ==
    /\ step \in Tiers /\ rest # <<>> /\ Len(Grown) > MaxParent
    /\ done' = WithBuffer
    /\ buf' = Part
    /\ rest' = Remains
    /\ UNCHANGED <<sourceVars, step, bufLen, raw, todo, parents>>

\* A piece that fits is not split again.
NextPiece ==
    /\ step \in Tiers /\ rest = <<>> /\ todo # <<>>
    /\ IF Len(Head(todo)) > MaxParent THEN rest' = Head(todo) /\ done' = WithBuffer
       ELSE UNCHANGED rest /\ done' = Append(WithBuffer, Head(todo))
    /\ buf' = <<>>
    /\ todo' = Tail(todo)
    /\ UNCHANGED <<sourceVars, step, bufLen, raw, parents>>

NextTier ==
    /\ step \in {"paragraphs", "lines"} /\ rest = <<>> /\ todo = <<>>
    /\ step' = IF step = "paragraphs" THEN "lines" ELSE "slices"
    /\ todo' = WithBuffer
    /\ buf' = <<>> /\ done' = <<>>
    /\ UNCHANGED <<sourceVars, rest, bufLen, raw, parents>>

\* Mutant: a line that is too long is left as it is.
WrapAsPartsTwoTiers ==
    /\ step = "lines" /\ rest = <<>> /\ todo = <<>>
    /\ parents' = parents \o [i \in DOMAIN WithBuffer |-> [Head(raw) EXCEPT !.text = WithBuffer[i]]]
    /\ raw' = Tail(raw)
    /\ step' = "cap"
    /\ buf' = <<>> /\ done' = <<>>
    /\ UNCHANGED <<sourceVars, rest, bufLen, todo>>

\* _wrap_as_parts: the parts of a parent are of its kind and have its title.
WrapAsParts ==
    /\ step = "slices" /\ rest = <<>> /\ todo = <<>>
    /\ parents' = parents \o [i \in DOMAIN WithBuffer |-> [Head(raw) EXCEPT !.text = WithBuffer[i]]]
    /\ raw' = Tail(raw)
    /\ step' = "cap"
    /\ buf' = <<>> /\ done' = <<>>
    /\ UNCHANGED <<sourceVars, rest, bufLen, todo>>

ParentNext ==
    \/ ExtractDocument \/ TakeSection \/ PackParagraph \/ StartGroup \/ EndOfText
    \/ KeepParent \/ SplitOversized \/ PackPart \/ StartPiece
    \/ NextPiece \/ NextTier \/ WrapAsParts

ParentSpec == ParentInit /\ [][ParentNext]_parentVars

-----------------------------------------------------------------------------
OneParagraph(text) == \A k \in 1 .. Len(text) - 1 : text[k] # 0 \/ text[k + 1] # 0

\* No parent is longer than MAX_PARENT_CHARS, whatever lines and paragraphs it
\* is made of, and none is empty; a group longer than target_chars is a single
\* paragraph, or a part of one.
ParentsFit ==
    \A i \in DOMAIN parents :
        /\ Len(parents[i].text) \in 1 .. MaxParent
        /\ parents[i].kind = "paragraph_group" /\ Len(parents[i].text) > Target
              => OneParagraph(parents[i].text)

\* A letter of the title of the preamble.
Lifted(c) == \E i \in DOMAIN preamble : c \in ToSet(preamble[i].title)

Precedes(c, d) == IF Lifted(c) = Lifted(d) THEN c < d ELSE Lifted(c)

MarksTitle(p) ==
    \E i \in DOMAIN preamble :
        LET title == preamble[i].title
        IN  /\ title # <<>> /\ p < title[1] /\ document[p] = "#"
            /\ \A q \in p + 1 .. title[1] - 1 : document[q] = "\n"

\* What stands before the first section, but for the line of the title.
Intro == {p \in 1 .. start - 1 : document[p] # "\n"} \ (IF Tops = {} THEN {} ELSE Min(Tops) .. TitleEnd)

\* Every letter goes into a parent, except the mark of the title and what is
\* before the first heading when it is too little; the parents have the
\* letters in the order of the document, each once, but for the title, which
\* is at the top; and what a section or a part of it says stands under the
\* heading that is its title.
TextIsKept ==
    /\ step = "cap" /\ raw = <<>> =>
          \A p \in DOMAIN document :
             \/ document[p] = "\n" \/ MarksTitle(p)
             \/ \E i \in DOMAIN parents : p \in ToSet(parents[i].text)
             \/ p < start /\ preamble = <<>> /\ Cardinality(Intro) < PreambleMin
    /\ \A i, j \in DOMAIN parents :
          \A k \in DOMAIN parents[i].text, l \in DOMAIN parents[j].text :
             LET c == parents[i].text[k]
                 d == parents[j].text[l]
             IN  (i < j \/ (i = j /\ k < l)) /\ c # 0 /\ d # 0 => Precedes(c, d)
    /\ \A i \in DOMAIN parents : parents[i].kind = "section" =>
          \A c \in ToSet(parents[i].text) :
             \/ c = 0
             \/ /\ parents[i].title[1] <= c
                /\ \A h \in parents[i].title[1] + 1 .. c : h \notin Headings("##")

=============================================================================
