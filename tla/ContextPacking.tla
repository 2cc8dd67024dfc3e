--------------------------- MODULE ContextPacking ---------------------------
(***************************************************************************)
(* format_context: the parents of an answer become blocks                  *)
(*     <retrieved_document source=... title=...>\n text \n</...>\n         *)
(* that are packed, best first, under a budget of characters.  A block is  *)
(* the lengths of its opening line, without the newline, and of its text.  *)
(***************************************************************************)
EXTENDS Integers, Sequences

CONSTANTS
    Blocks,         \* pairs: the length of the opening line and of the text
    MaxBlocks,      \* bound: AMBIENT_TOP_PARENTS
    CharBudget,     \* 4 * token_cap
    HeaderLen,      \* of _AMBIENT_HEADER
    MinBody,        \* _MIN_TRUNCATED_BODY_CHARS
    Overhead,       \* _TRUNCATION_OVERHEAD_CHARS
    ClosingLen      \* of the closing tag with the newlines around it

ASSUME BlocksAssumption == Blocks \subseteq [head : Nat, text : Nat]
ASSUME LengthsAssumption ==
    /\ {MaxBlocks, CharBudget, HeaderLen, MinBody, Overhead, ClosingLen} \subseteq Nat
    /\ HeaderLen <= CharBudget

\* What makes the arithmetic right: 32 against 23 in the code.
ASSUME OverheadAssumption == ClosingLen + 2 <= Overhead

VARIABLES
    packing,    \* the next step: "idle", "pack", "packed"
    left,       \* blocks still to be packed
    usedChars,  \* used
    joined,     \* the length of "\n".join(pieces)
    bodies,     \* body_blocks
    cut,        \* of a truncated block: what it keeps of what text, or NoCut
    context     \* the length of the result

packVars == <<packing, left, usedChars, joined, bodies, cut, context>>

NoCut == [kept |-> 0, text |-> 0]

PackInit ==
    /\ packing = "idle"
    /\ left = <<>>
    /\ usedChars = HeaderLen
    /\ joined = HeaderLen
    /\ bodies = 0
    /\ cut = NoCut
    /\ context = 0

-----------------------------------------------------------------------------
FormatContext ==
    /\ packing = "idle"
    /\ \E n \in 0 .. MaxBlocks : left' \in [1 .. n -> Blocks]
    /\ packing' = "pack"
    /\ UNCHANGED <<usedChars, joined, bodies, cut, context>>

BlockLen(b) == b.head + 1 + b.text + ClosingLen

Fits(b) == usedChars + BlockLen(b) <= CharBudget

\* Mutant: the newlines between the blocks are not counted.
PackBlockNoSeparator ==
    /\ packing = "pack" /\ left # <<>>
    /\ Fits(Head(left))
    /\ usedChars' = usedChars + BlockLen(Head(left))
    /\ joined' = joined + 1 + BlockLen(Head(left))
    /\ bodies' = bodies + 1
    /\ left' = Tail(left)
    /\ UNCHANGED <<packing, cut, context>>

PackBlock ==
    /\ packing = "pack" /\ left # <<>>
    /\ Fits(Head(left))
    /\ usedChars' = usedChars + BlockLen(Head(left)) + 1
    /\ joined' = joined + 1 + BlockLen(Head(left))
    /\ bodies' = bodies + 1
    /\ left' = Tail(left)
    /\ UNCHANGED <<packing, cut, context>>

Remaining == CharBudget - usedChars

\* Mutant: nothing is set aside for the ellipsis and the closing tag.
BodyBudgetAll(b) == Remaining - b.head

\* Characters of the body, text and closing tag, that a truncated block keeps.
BodyBudget(b) == Remaining - b.head - Overhead

CanCut(b) == Remaining > MinBody /\ BodyBudget(b) >= MinBody

\* _truncate_block: opening line, newline, the cut body without its trailing
\* white space, an ellipsis, and a closing tag.
CutBlock ==
    /\ packing = "pack" /\ left # <<>>
    /\ ~Fits(Head(left)) /\ CanCut(Head(left))
    /\ \E stripped \in 0 .. BodyBudget(Head(left)) :
          joined' = joined + 1 + Head(left).head + 1
                      + (BodyBudget(Head(left)) - stripped) + 1 + ClosingLen
    /\ cut' = [kept |-> BodyBudget(Head(left)), text |-> Head(left).text]
    /\ bodies' = bodies + 1
    /\ left' = <<>>
    /\ UNCHANGED <<packing, usedChars, context>>

DropBlock ==
    /\ packing = "pack" /\ left # <<>>
    /\ ~Fits(Head(left)) /\ ~CanCut(Head(left))
    /\ left' = <<>>
    /\ UNCHANGED <<packing, usedChars, joined, bodies, cut, context>>

\* strip() takes the newline of the last block; without a block there is nothing.
Join ==
    /\ packing = "pack" /\ left = <<>>
    /\ context' = IF bodies = 0 THEN 0 ELSE joined - 1
    /\ packing' = "packed"
    /\ UNCHANGED <<left, usedChars, joined, bodies, cut>>

PackNext == FormatContext \/ PackBlock \/ CutBlock \/ DropBlock \/ Join

PackSpec == PackInit /\ [][PackNext]_packVars

-----------------------------------------------------------------------------
\* Separators, ellipsis and closing tags included, the injected context stays
\* within the budget.  The last full block may use the budget up to its own
\* separator, which is the newline that strip() removes.
ContextFits == packing = "packed" => context <= CharBudget

\* A block that does not fit by a single character is still cut inside its
\* text: the slice, which runs over text and closing tag, takes nothing of the
\* tag, and _truncate_block's is the only one the formatter puts at its end.
CutInsideText == cut.kept <= cut.text

=============================================================================
