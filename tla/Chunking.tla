------------------------------ MODULE Chunking ------------------------------
(***************************************************************************)
(* recursive_split and its caller: a passage becomes chunks of at most     *)
(* MaxSize characters, packed from the parts between the coarsest          *)
(* separators that will do, with the tail of each chunk put in front of    *)
(* the next one.  A step is a turn of one of the loops.                    *)
(*                                                                         *)
(* A character is "x" (part of a word), a stop, a space or a newline.  A   *)
(* text is the sequence of the positions its characters have in the        *)
(* passage, so that a lost, a repeated and an equal character differ.      *)
(* The last separator cuts between any two characters, so _hard_split is   *)
(* never reached with the default separators.                              *)
(***************************************************************************)
EXTENDS Integers, SequencesExt

CONSTANTS
    MaxSize,    \* MAX_CHUNK
    Overlaps,   \* values of CHUNK_OVERLAP
    MaxPassage  \* bound: characters of a passage

ASSUME SizesAssumption == MaxSize \in Nat \ {0} /\ Overlaps \subseteq Nat /\ MaxPassage \in Nat

VARIABLES
    passage,    \* the text
    overlap,
    frames,     \* the calls of recursive_split that run, the outermost first
    pieces,     \* what the outermost one has returned, as far as it is unread
    chunks      \* what the passage is split into

chunkVars == <<passage, overlap, frames, pieces, chunks>>

ChunkInit == passage = <<>> /\ overlap = 0 /\ frames = <<>> /\ pieces = <<>> /\ chunks = <<>>

-----------------------------------------------------------------------------
Characters == {"x", ".", " ", "\n"}

Separators == << <<"\n", "\n">>, <<"\n">>, <<".", " ">>, <<" ">>, <<>> >>

Blank(char) == char \in {" ", "\n"}

BlankFrom(a, b) == \A p \in a .. b : Blank(passage[p])

\* The text of a piece, and where the part of it begins that is not overlap.
Piece(a, b) == [text |-> [i \in 1 .. b - a + 1 |-> a + i - 1], from |-> a]

\* A call splits what begins at packed and ends at to: what comes before at is
\* in the buffer, and done is what came before packed.
Call(a, b) == [done |-> <<>>, packed |-> a, at |-> a, to |-> b]

Depth == Len(frames)
Current == frames[Depth]

\* _split_with_separator: a part ends with the separator of this depth, the
\* last one with the text.
PartEnd ==
    LET sep  == Separators[Depth]
        ends == {i \in Current.at .. Current.to :
                    /\ Len(sep) <= i - Current.at + 1
                    /\ \A k \in DOMAIN sep : passage[i - Len(sep) + k] = sep[k]}
    IN  IF ends = {} THEN Current.to ELSE CHOOSE i \in ends : \A j \in ends : i <= j

PartLen == PartEnd - Current.at + 1
BufLen == Current.at - Current.packed

\* What is in the buffer becomes a piece.
Flushed(call) ==
    IF call.packed < call.at
    THEN [call EXCEPT !.done = Append(@, Piece(call.packed, call.at - 1)), !.packed = call.at]
    ELSE call

Replaced(call) == [frames EXCEPT ![Depth] = call]

TailOf(s, n) == IF Len(s) > n THEN SubSeq(s, Len(s) - n + 1, Len(s)) ELSE s

StartsLike(s, tail) ==
    Len(tail) <= Len(s) /\ \A i \in DOMAIN tail : passage[s[i]] = passage[tail[i]]

\* Mutant: the tail goes in front whatever the length.
OverlappedAlways(s) ==
    [i \in DOMAIN s |->
        LET tail == TailOf(s[i - 1].text, overlap)
        IN  IF i = 1 \/ overlap = 0 \/ StartsLike(s[i].text, tail)
            THEN s[i] ELSE [s[i] EXCEPT !.text = tail \o @]]

\* The tail of the piece before goes in front, unless the piece already reads
\* like that or would become too long.
Overlapped(s) ==
    [i \in DOMAIN s |->
        LET tail == TailOf(s[i - 1].text, overlap)
        IN  IF \/ i = 1 \/ overlap = 0 \/ StartsLike(s[i].text, tail)
               \/ Len(tail) + Len(s[i].text) > MaxSize + overlap
            THEN s[i] ELSE [s[i] EXCEPT !.text = tail \o @]]

-----------------------------------------------------------------------------
\* _chunk_one_parent.  Blank text yields nothing, and a short one itself.
SplitPassage ==
    /\ passage = <<>>
    /\ \E n \in 1 .. MaxPassage : passage' \in [1 .. n -> Characters]
    /\ overlap' \in Overlaps
    /\ IF \A p \in DOMAIN passage' : Blank(passage'[p]) THEN UNCHANGED <<frames, pieces>>
       ELSE IF Len(passage') <= MaxSize
       THEN pieces' = <<Piece(1, Len(passage'))>> /\ UNCHANGED frames
       ELSE frames' = <<Call(1, Len(passage'))>> /\ UNCHANGED pieces
    /\ UNCHANGED chunks

Reading == frames # <<>> /\ Current.at <= Current.to

\* A part is packed behind the others as long as it fits.
ExtendBuffer ==
    /\ Reading /\ BufLen + PartLen <= MaxSize
    /\ frames' = Replaced([Current EXCEPT !.at = PartEnd + 1])
    /\ UNCHANGED <<passage, overlap, pieces, chunks>>

\* Otherwise it begins a new piece.
FlushBuffer ==
    /\ Reading /\ PartLen <= MaxSize /\ BufLen + PartLen > MaxSize
    /\ frames' = Replaced([Flushed(Current) EXCEPT !.at = PartEnd + 1])
    /\ UNCHANGED <<passage, overlap, pieces, chunks>>

\* Mutant: the buffer is not flushed before a part that is too long.
SplitPartUnflushed ==
    /\ Reading /\ PartLen > MaxSize
    /\ LET waiting == [Current EXCEPT !.packed = Current.at, !.at = PartEnd + 1]
       IN  frames' = IF BlankFrom(Current.at, PartEnd)
                     THEN Replaced([waiting EXCEPT !.packed = waiting.at])
                     ELSE Append(Replaced(waiting), Call(Current.at, PartEnd))
    /\ UNCHANGED <<passage, overlap, pieces, chunks>>

\* One that is too long is split at the finer separators, unless it is blank.
SplitPart ==
    /\ Reading /\ PartLen > MaxSize
    /\ LET waiting == [Flushed(Current) EXCEPT !.at = PartEnd + 1]
       IN  frames' = IF BlankFrom(Current.at, PartEnd)
                     THEN Replaced([waiting EXCEPT !.packed = waiting.at])
                     ELSE Append(Replaced(waiting), Call(Current.at, PartEnd))
    /\ UNCHANGED <<passage, overlap, pieces, chunks>>

Read == frames # <<>> /\ Current.at > Current.to

\* The pieces of a part that was too long go behind those before it.
ReturnPieces ==
    /\ Read /\ Depth > 1
    /\ LET caller == frames[Depth - 1]
       IN  frames' = [Front(frames) EXCEPT ![Depth - 1] =
                         [caller EXCEPT !.done = @ \o Overlapped(Flushed(Current).done),
                                        !.packed = caller.at]]
    /\ UNCHANGED <<passage, overlap, pieces, chunks>>

ReturnAll ==
    /\ Read /\ Depth = 1
    /\ frames' = <<>>
    /\ pieces' = Overlapped(Flushed(Current).done)
    /\ UNCHANGED <<passage, overlap, chunks>>

\* Blank pieces are left out.
TakePiece ==
    /\ pieces # <<>>
    /\ chunks' = IF \A p \in ToSet(Head(pieces).text) : Blank(passage[p])
                 THEN chunks ELSE Append(chunks, Head(pieces))
    /\ pieces' = Tail(pieces)
    /\ UNCHANGED <<passage, overlap, frames>>

ChunkNext == \/ SplitPassage \/ ExtendBuffer \/ FlushBuffer \/ SplitPart
             \/ ReturnPieces \/ ReturnAll \/ TakePiece

ChunkSpec == ChunkInit /\ [][ChunkNext]_chunkVars

-----------------------------------------------------------------------------
\* No chunk is longer than MAX_CHUNK, but for the overlap, through however
\* many levels of separators it has come, and no chunk is empty.
ChunksFit == \A i \in DOMAIN chunks : Len(chunks[i].text) \in 1 .. MaxSize + overlap

Own(piece) == piece.from .. Last(piece.text)

\* The chunks of a passage have all its words in their order: without the
\* overlaps they are the passage, but for some of its blanks, and an overlap
\* is what was read before.
WordsAreKept ==
    /\ passage # <<>> /\ frames = <<>> /\ pieces = <<>> =>
          \A p \in DOMAIN passage : Blank(passage[p]) \/ \E i \in DOMAIN chunks : p \in Own(chunks[i])
    /\ \A i, j \in DOMAIN chunks : i < j => Last(chunks[i].text) < chunks[j].from
    /\ \A i \in DOMAIN chunks :
          LET text == chunks[i].text
              from == chunks[i].from
          IN  \E m \in 0 .. Len(text) - 1 :
                 /\ \A k \in 1 .. m : text[k] < from
                 /\ \A k \in m + 1 .. Len(text) : text[k] = from + k - m - 1

=============================================================================
