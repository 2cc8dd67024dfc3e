-------------------------- MODULE AlgorithmProofs ---------------------------
(***************************************************************************)
(* Proofs about the algorithms around a search: ContextPacking, for every  *)
(* budget, header, set of blocks and reserve that covers the closing tag   *)
(* and two characters more, Fusion, for every cap, reply, pools and        *)
(* scores, and Chunking, for every text, size and overlap.                 *)
(***************************************************************************)
EXTENDS ContextPacking, Fusion, Chunking,
        SequenceTheorems, FiniteSetTheorems, WellFoundedInduction, TLAPS

-----------------------------------------------------------------------------
(* format_context *)

\* As long as blocks are left none has been cut, and the two counts agree;
\* they may be one above the budget, by the separator of the last full block.
PackIInv ==
    /\ left \in Seq(Blocks)
    /\ usedChars \in Int
    /\ joined \in Int
    /\ packing \in {"idle", "pack", "packed"}
    /\ packing = "idle" => joined = usedChars
    /\ left # <<>> => joined = usedChars
    /\ usedChars <= CharBudget + 1
    /\ joined <= CharBudget + 1
    /\ CutInsideText
    /\ ContextFits

LEMMA LengthsAreNumbers ==
    /\ CharBudget \in Nat /\ HeaderLen \in Nat /\ MinBody \in Nat
    /\ Overhead \in Nat /\ ClosingLen \in Nat
    /\ HeaderLen <= CharBudget /\ ClosingLen + 2 <= Overhead
BY LengthsAssumption, OverheadAssumption

\* The first block that is left, and the blocks behind it.
LEMMA FirstBlock ==
    ASSUME left \in Seq(Blocks), left # <<>>
    PROVE  Head(left).head \in Nat /\ Head(left).text \in Nat /\ Tail(left) \in Seq(Blocks)
<1>1. Head(left) \in Blocks
  OBVIOUS
<1>2. Head(left) \in [head : Nat, text : Nat]
  BY <1>1, BlocksAssumption
<1>3. Tail(left) \in Seq(Blocks)
  OBVIOUS
<1>4. QED
  BY <1>2, <1>3

\* What a truncated block keeps ends inside its text, and with ellipsis and
\* closing tag it stays within the budget.
LEMMA CutArithmetic ==
    ASSUME NEW b, b.head \in Nat, b.text \in Nat, usedChars \in Int,
           ~Fits(b), CanCut(b), NEW stripped \in 0 .. BodyBudget(b)
    PROVE  /\ BodyBudget(b) \in Int
           /\ BodyBudget(b) <= b.text
           /\ usedChars + 1 + b.head + 1 + (BodyBudget(b) - stripped) + 1 + ClosingLen
                 \in Int
           /\ usedChars + 1 + b.head + 1 + (BodyBudget(b) - stripped) + 1 + ClosingLen
                 <= CharBudget + 1
BY LengthsAreNumbers DEF Fits, BlockLen, CanCut, BodyBudget, Remaining

LEMMA PackingStarts == PackInit => PackIInv
BY LengthsAreNumbers DEF PackInit, PackIInv, CutInsideText, ContextFits, NoCut

LEMMA PackingStep == PackIInv /\ [PackNext]_packVars => PackIInv'
<1> SUFFICES ASSUME PackIInv, [PackNext]_packVars PROVE PackIInv'
  OBVIOUS
<1> USE DEF PackIInv
<1>1. CASE FormatContext
  <2>1. PICK n \in 0 .. MaxBlocks : left' \in [1 .. n -> Blocks]
    BY <1>1 DEF FormatContext
  <2>2. left' \in Seq(Blocks)
    BY <2>1
  <2>3. QED
    BY <1>1, <2>2 DEF FormatContext, CutInsideText, ContextFits
<1>2. CASE PackBlock
  <2>1. Head(left).head \in Nat /\ Head(left).text \in Nat /\ Tail(left) \in Seq(Blocks)
    BY <1>2, FirstBlock DEF PackBlock
  <2>2. BlockLen(Head(left)) \in Int
    BY <2>1, LengthsAreNumbers DEF BlockLen
  <2>3. usedChars + BlockLen(Head(left)) <= CharBudget
    BY <1>2 DEF PackBlock, Fits
  <2>4. joined = usedChars
    BY <1>2 DEF PackBlock
  <2>5. usedChars' = usedChars + BlockLen(Head(left)) + 1 /\ joined' = usedChars'
    BY <1>2, <2>2, <2>4 DEF PackBlock
  <2>6. usedChars' \in Int /\ usedChars' <= CharBudget + 1
    BY <2>2, <2>3, <2>5, LengthsAreNumbers
  <2>7. QED
    BY <1>2, <2>1, <2>5, <2>6 DEF PackBlock, CutInsideText, ContextFits
<1>3. CASE CutBlock
  <2>1. Head(left).head \in Nat /\ Head(left).text \in Nat
    BY <1>3, FirstBlock DEF CutBlock
  <2>2. joined = usedChars
    BY <1>3 DEF CutBlock
  <2>3. PICK stripped \in 0 .. BodyBudget(Head(left)) :
            joined' = joined + 1 + Head(left).head + 1
                        + (BodyBudget(Head(left)) - stripped) + 1 + ClosingLen
    BY <1>3 DEF CutBlock
  <2>4. joined' \in Int /\ joined' <= CharBudget + 1 /\ BodyBudget(Head(left)) <= Head(left).text
    BY <1>3, <2>1, <2>2, <2>3, CutArithmetic DEF CutBlock
  <2>5. cut'.kept <= cut'.text
    BY <1>3, <2>4 DEF CutBlock
  <2>6. left' = <<>> /\ usedChars' = usedChars /\ packing' = packing /\ packing = "pack"
    BY <1>3 DEF CutBlock
  <2>7. QED
    BY <2>4, <2>5, <2>6 DEF CutInsideText, ContextFits
<1>4. CASE DropBlock
  BY <1>4 DEF DropBlock, CutInsideText, ContextFits
<1>5. CASE Join
  <2>1. context' <= CharBudget
    BY <1>5, LengthsAreNumbers DEF Join
  <2>2. QED
    BY <1>5, <2>1 DEF Join, CutInsideText, ContextFits
<1>6. CASE UNCHANGED packVars
  BY <1>6 DEF packVars, CutInsideText, ContextFits
<1>7. QED
  BY <1>1, <1>2, <1>3, <1>4, <1>5, <1>6 DEF PackNext

\* Whatever the blocks, the budget and the header are, the context that is
\* injected is within the budget.
THEOREM ContextIsWithinBudget == PackSpec => []ContextFits
<1>1. PackIInv => ContextFits
  BY DEF PackIInv
<1>2. QED
  BY <1>1, PackingStarts, PackingStep, PTL DEF PackSpec

\* A block that is cut loses its own closing tag whole: the cut lies inside
\* its text (_truncate_block; ContextPacking's CutInsideText).
THEOREM CutIsInsideText == PackSpec => []CutInsideText
<1>1. PackIInv => CutInsideText
  BY DEF PackIInv
<1>2. QED
  BY <1>1, PackingStarts, PackingStep, PTL DEF PackSpec

-----------------------------------------------------------------------------
(* expand_query *)

\* What has been made of the paraphrases so far: every one that was written is
\* a variant, still unread, or blank, and no variant after the query came from
\* elsewhere.  Once the HyDE text is there, that holds of the first variants up
\* to the cap only.
Written == ToSet(reply.paraphrases)

ReadingInv ==
    expansion = "reading" =>
        /\ unread \in Seq(Strings) /\ ToSet(unread) \subseteq Written
        /\ Len(variants) <= MaxParaphrases + 1
        /\ Written \subseteq ToSet(variants) \cup ToSet(unread) \cup {NoText}
        /\ \A i \in 2 .. Len(variants) : variants[i] \in Written

Exhausted == Written \subseteq ToSet(variants) \cup {NoText}

CapReached ==
    /\ Len(variants) > MaxParaphrases
    /\ \A i \in 2 .. MaxParaphrases + 1 : variants[i] \in Written

ExpansionInv ==
    /\ reply.paraphrases \in Seq(Strings)
    /\ reply.hyde \in Strings
    /\ variants \in Seq(Texts)
    /\ IsInjective(variants)
    /\ expansion \in {"idle", "reading", "done"}
    /\ expansion = "idle" => reply = Nothing
    /\ expansion # "idle" => variants # <<>> /\ variants[1] = Query
    /\ ReadingInv
    /\ expansion = "done" => Len(variants) <= MaxParaphrases + 2 /\ (Exhausted \/ CapReached)

LEMMA NumbersOfFusion ==
    /\ MaxParaphrases \in Nat /\ MaxWritten \in Nat /\ Query \in Texts /\ NoText \notin Texts
    /\ LegPool \in Nat \ {0} /\ FusedPool \in Nat \ {0} /\ RRFK \in Nat \ {0}
    /\ LegPool <= RRFK + 1 /\ Scale \in Nat \ {0}
BY FusionPoolsAssumption, PoolWithinK, ScaleAssumption, TextsAssumption, ParaphrasesAssumption

LEMMA SeqDomain == ASSUME NEW S, NEW s \in Seq(S)
                   PROVE  Len(s) \in Nat /\ DOMAIN s = 1 .. Len(s) /\ s \in [1 .. Len(s) -> S]
BY LenProperties

LEMMA OneVariant ==
    /\ <<Query>> \in Seq(Texts) /\ IsInjective(<<Query>>)
    /\ Len(<<Query>>) = 1 /\ <<Query>>[1] = Query /\ <<Query>> # <<>>
    /\ \A i \in 2 .. Len(<<Query>>) : FALSE
<1>1. DOMAIN <<Query>> = 1 .. 1 /\ Len(<<Query>>) = 1 /\ <<Query>>[1] = Query
  OBVIOUS
<1>2. <<Query>> \in Seq(Texts)
  BY NumbersOfFusion
<1>3. QED
  BY <1>1, <1>2 DEF IsInjective

\* The head of a list and the rest of it are all of it.
LEMMA HeadAndRest ==
    ASSUME NEW S, NEW s \in Seq(S), s # <<>>
    PROVE  /\ Head(s) \in S /\ Tail(s) \in Seq(S)
           /\ ToSet(s) = {Head(s)} \cup ToSet(Tail(s))
<1>1. /\ Head(s) \in S /\ Tail(s) \in Seq(S) /\ Len(Tail(s)) = Len(s) - 1
      /\ \A i \in 1 .. Len(Tail(s)) : Tail(s)[i] = s[i + 1]
  BY HeadTailProperties
<1>2. Len(s) \in Nat /\ DOMAIN s = 1 .. Len(s) /\ Len(s) # 0 /\ Head(s) = s[1]
  BY SeqDomain, EmptySeq
<1>3. DOMAIN Tail(s) = 1 .. Len(s) - 1
  BY <1>1, SeqDomain
<1>4. ASSUME NEW x \in ToSet(s) PROVE x \in {Head(s)} \cup ToSet(Tail(s))
  <2>1. PICK i \in 1 .. Len(s) : s[i] = x
    BY <1>2, <1>4 DEF ToSet
  <2>2. CASE i = 1
    BY <1>2, <2>1, <2>2
  <2>3. CASE i # 1
    <3>1. i - 1 \in 1 .. Len(s) - 1 /\ (i - 1) + 1 = i
      BY <1>2, <2>1, <2>3
    <3>2. Tail(s)[i - 1] = x
      BY <1>1, <2>1, <3>1
    <3>3. QED
      BY <1>3, <3>1, <3>2 DEF ToSet
  <2>4. QED
    BY <2>2, <2>3
<1>5. ASSUME NEW x \in ToSet(Tail(s)) PROVE x \in ToSet(s)
  <2>1. PICK i \in 1 .. Len(s) - 1 : Tail(s)[i] = x
    BY <1>3, <1>5 DEF ToSet
  <2>2. i + 1 \in 1 .. Len(s) /\ s[i + 1] = x
    BY <1>1, <1>2, <2>1
  <2>3. QED
    BY <1>2, <2>2 DEF ToSet
<1>6. Head(s) \in ToSet(s)
  <2>1. 1 \in 1 .. Len(s)
    BY <1>2
  <2>2. QED
    BY <1>2, <2>1 DEF ToSet
<1>7. QED
  BY <1>1, <1>4, <1>5, <1>6

\* A useful text becomes the last variant, any other one changes nothing; no
\* variant is lost or moved by it, and none is there twice.
LEMMA VariantAdded ==
    ASSUME variants \in Seq(Texts), IsInjective(variants), NEW p \in Strings
    PROVE  /\ WithUseful(p) \in Seq(Texts) /\ IsInjective(WithUseful(p))
           /\ p = NoText \/ p \in ToSet(WithUseful(p))
           /\ ToSet(variants) \subseteq ToSet(WithUseful(p))
           /\ Len(WithUseful(p)) \in Len(variants) .. Len(variants) + 1
           /\ \A i \in 1 .. Len(variants) : WithUseful(p)[i] = variants[i]
           /\ \A i \in Len(variants) + 1 .. Len(WithUseful(p)) : WithUseful(p)[i] = p
<1>1. Len(variants) \in Nat /\ DOMAIN variants = 1 .. Len(variants)
  BY SeqDomain
<1>2. CASE ~Useful(p)
  <2>1. WithUseful(p) = variants
    BY <1>2 DEF WithUseful
  <2>2. QED
    BY <1>1, <1>2, <2>1 DEF Useful
<1>3. CASE Useful(p)
  <2> DEFINE w == Append(variants, p)
             n == Len(variants)
  <2>1. WithUseful(p) = w
    BY <1>3 DEF WithUseful
  <2>2. p \in Texts /\ p \notin ToSet(variants)
    BY <1>3 DEF Useful, Strings
  <2>3. /\ w \in Seq(Texts) /\ Len(w) = n + 1
        /\ \A i \in 1 .. n : w[i] = variants[i]
        /\ w[n + 1] = p
    BY <2>2, AppendProperties
  <2>4. DOMAIN w = 1 .. n + 1
    BY <2>3, SeqDomain
  <2> HIDE DEF w
  <2>5. \A i \in 1 .. n : i \in 1 .. n + 1
    BY <1>1
  <2>6. n + 1 \in 1 .. n + 1
    BY <1>1
  <2>7. ToSet(variants) \subseteq ToSet(w) /\ p \in ToSet(w)
    BY <1>1, <2>3, <2>4, <2>5, <2>6 DEF ToSet
  <2>8. IsInjective(w)
    <3> SUFFICES ASSUME NEW i \in 1 .. n + 1, NEW j \in 1 .. n + 1, w[i] = w[j] PROVE i = j
      BY <2>4 DEF IsInjective
    <3>1. /\ i \in 1 .. n \/ i = n + 1
          /\ j \in 1 .. n \/ j = n + 1
      BY <1>1
    <3>2. \A k \in 1 .. n : w[k] # p
      BY <1>1, <2>2, <2>3 DEF ToSet
    <3>3. \A k, l \in 1 .. n : w[k] = w[l] => k = l
      BY <1>1, <2>3 DEF IsInjective
    <3>4. QED
      BY <2>3, <3>1, <3>2, <3>3
  <2>9. \A i \in n + 1 .. n + 1 : w[i] = p
    <3>1. \A i \in n + 1 .. n + 1 : i = n + 1
      BY <1>1
    <3>2. QED
      BY <2>3, <3>1
  <2>10. n + 1 \in n .. n + 1
    BY <1>1
  <2>11. QED
    BY <2>1, <2>3, <2>7, <2>8, <2>9, <2>10
<1>4. QED
  BY <1>2, <1>3

\* What a model writes are its paraphrases.
LEMMA ReplyIsList ==
    ASSUME NEW n \in 0 .. MaxWritten, NEW ps \in [1 .. n -> Strings]
    PROVE  ps \in Seq(Strings)
<1>1. n \in Nat
  BY NumbersOfFusion
<1>2. QED
  BY <1>1

LEMMA ExpansionStarts == FusionInit => ExpansionInv
<1> SUFFICES ASSUME FusionInit PROVE ExpansionInv
  OBVIOUS
<1>1. variants = <<>> /\ expansion = "idle" /\ reply = Nothing
  BY DEF FusionInit
<1>2. <<>> \in Seq(Texts) /\ <<>> \in Seq(Strings) /\ IsInjective(<<>>)
  BY DEF IsInjective
<1>3. Nothing.paraphrases = <<>> /\ Nothing.hyde \in Strings
  BY DEF Nothing, Strings
<1>4. QED
  BY <1>1, <1>2, <1>3 DEF ExpansionInv, ReadingInv

LEMMA AskModelExpands == ASSUME ExpansionInv, AskModel PROVE ExpansionInv'
<1>1. PICK n \in 0 .. MaxWritten, hyde \in Strings : \E ps \in [1 .. n -> Strings] :
          reply' = [paraphrases |-> ps, hyde |-> hyde] /\ unread' = ps
  BY DEF AskModel
<1>2. PICK ps \in [1 .. n -> Strings] :
          reply' = [paraphrases |-> ps, hyde |-> hyde] /\ unread' = ps
  BY <1>1
<1>3. ps \in Seq(Strings)
  BY ReplyIsList
<1>4. variants' = <<Query>> /\ expansion' = "reading"
  BY DEF AskModel
<1>5. Written' = ToSet(ps)
  BY <1>2 DEF Written
<1>6. QED
  BY <1>2, <1>3, <1>4, <1>5, OneVariant, NumbersOfFusion DEF ExpansionInv, ReadingInv

LEMMA NoModelExpands == ASSUME ExpansionInv, NoModel PROVE ExpansionInv'
<1>1. reply = Nothing /\ reply' = reply /\ variants' = <<Query>> /\ expansion' = "done"
  BY DEF NoModel, Idle, ExpansionInv
<1>2. Nothing.paraphrases = <<>> /\ Nothing.hyde \in Strings /\ <<>> \in Seq(Strings)
  BY DEF Nothing, Strings
<1>3. ToSet(<<>>) = {}
  BY DEF ToSet
<1>4. Exhausted'
  BY <1>1, <1>2, <1>3 DEF Exhausted, Written
<1>5. QED
  BY <1>1, <1>2, <1>4, OneVariant, NumbersOfFusion DEF ExpansionInv, ReadingInv

LEMMA ReadParaphraseExpands == ASSUME ExpansionInv, ReadParaphrase PROVE ExpansionInv'
<1> DEFINE p == Head(unread)
           n == Len(variants)
<1>1. /\ expansion = "reading" /\ expansion' = expansion /\ reply' = reply
      /\ unread # <<>> /\ unread' = Tail(unread) /\ variants' = WithUseful(p)
      /\ ~(n > MaxParaphrases)
  BY DEF ReadParaphrase, EnoughKept
<1>2. unread \in Seq(Strings)
  BY <1>1 DEF ExpansionInv, ReadingInv
<1>3. p \in Strings /\ Tail(unread) \in Seq(Strings) /\ ToSet(unread) = {p} \cup ToSet(Tail(unread))
  BY <1>1, <1>2, HeadAndRest
<1>4. n \in Nat /\ variants \in Seq(Texts) /\ IsInjective(variants)
  BY SeqDomain DEF ExpansionInv
<1>5. /\ variants' \in Seq(Texts) /\ IsInjective(variants')
      /\ p = NoText \/ p \in ToSet(variants')
      /\ ToSet(variants) \subseteq ToSet(variants')
      /\ Len(variants') \in n .. n + 1
      /\ \A i \in 1 .. n : variants'[i] = variants[i]
      /\ \A i \in n + 1 .. Len(variants') : variants'[i] = p
  BY <1>1, <1>3, <1>4, VariantAdded
<1>6. Written' = Written /\ Written \subseteq ToSet(variants) \cup ToSet(unread) \cup {NoText}
  BY <1>1 DEF Written, ExpansionInv, ReadingInv
<1>7. Written \subseteq ToSet(variants') \cup ToSet(unread') \cup {NoText}
  BY <1>1, <1>3, <1>5, <1>6
<1>8. Len(variants') <= MaxParaphrases + 1
  BY <1>1, <1>4, <1>5, NumbersOfFusion
<1>9. n # 0 /\ variants[1] = Query /\ variants' # <<>> /\ variants'[1] = Query
  <2>1. variants # <<>> /\ variants[1] = Query
    BY <1>1 DEF ExpansionInv
  <2>2. n # 0
    BY <1>4, <2>1, EmptySeq
  <2>3. 1 \in 1 .. n /\ Len(variants') # 0
    BY <1>4, <1>5, <2>2
  <2>4. QED
    BY <1>5, <2>1, <2>2, <2>3, EmptySeq
<1>10. p \in Written /\ ToSet(unread') \subseteq Written
  BY <1>1, <1>3 DEF ExpansionInv, ReadingInv
<1>11. \A i \in 2 .. Len(variants') : variants'[i] \in Written
  <2> SUFFICES ASSUME NEW i \in 2 .. Len(variants') PROVE variants'[i] \in Written
    OBVIOUS
  <2>1. i \in 2 .. n \/ i \in n + 1 .. Len(variants')
    BY <1>4, <1>5
  <2>2. CASE i \in 2 .. n
    <3>1. i \in 1 .. n
      BY <1>4, <2>2
    <3>2. variants[i] \in Written
      BY <1>1, <2>2 DEF ExpansionInv, ReadingInv
    <3>3. QED
      BY <1>5, <3>1, <3>2
  <2>3. QED
    BY <1>5, <1>10, <2>1, <2>2
<1>12. ReadingInv'
  BY <1>1, <1>3, <1>6, <1>7, <1>8, <1>10, <1>11 DEF ReadingInv
<1>13. QED
  BY <1>1, <1>5, <1>9, <1>12 DEF ExpansionInv

LEMMA ReadHydeExpands == ASSUME ExpansionInv, ReadHyde PROVE ExpansionInv'
<1> DEFINE p == reply.hyde
           n == Len(variants)
<1>1. /\ expansion = "reading" /\ expansion' = "done" /\ reply' = reply
      /\ unread = <<>> \/ n > MaxParaphrases
      /\ variants' = WithUseful(p)
  BY DEF ReadHyde, EnoughKept
<1>2. p \in Strings /\ n \in Nat /\ variants \in Seq(Texts) /\ IsInjective(variants)
  BY SeqDomain DEF ExpansionInv
<1>3. /\ variants' \in Seq(Texts) /\ IsInjective(variants')
      /\ ToSet(variants) \subseteq ToSet(variants')
      /\ Len(variants') \in n .. n + 1
      /\ \A i \in 1 .. n : variants'[i] = variants[i]
  BY <1>1, <1>2, VariantAdded
<1>4. /\ n <= MaxParaphrases + 1
      /\ Written \subseteq ToSet(variants) \cup ToSet(unread) \cup {NoText}
      /\ \A i \in 2 .. n : variants[i] \in Written
      /\ Written' = Written
  BY <1>1 DEF ExpansionInv, ReadingInv, Written
<1>5. Len(variants') <= MaxParaphrases + 2
  BY <1>2, <1>3, <1>4, NumbersOfFusion
<1>6. n # 0 /\ variants' # <<>> /\ variants'[1] = Query
  <2>1. variants # <<>> /\ variants[1] = Query
    BY <1>1 DEF ExpansionInv
  <2>2. n # 0
    BY <1>2, <2>1, EmptySeq
  <2>3. 1 \in 1 .. n /\ Len(variants') # 0
    BY <1>2, <1>3, <2>2
  <2>4. QED
    BY <1>3, <2>1, <2>2, <2>3, EmptySeq
<1>7. Exhausted' \/ CapReached'
  <2>1. CASE unread = <<>>
    <3>1. ToSet(unread) = {}
      BY <2>1 DEF ToSet
    <3>2. Written \subseteq ToSet(variants') \cup {NoText}
      BY <1>3, <1>4, <3>1
    <3>3. QED
      BY <1>4, <3>2 DEF Exhausted
  <2>2. CASE n > MaxParaphrases
    <3>1. Len(variants') > MaxParaphrases
      BY <1>2, <1>3, <2>2, NumbersOfFusion
    <3>2. \A i \in 2 .. MaxParaphrases + 1 : i \in 2 .. n /\ i \in 1 .. n
      BY <1>2, <2>2, NumbersOfFusion
    <3>3. QED
      BY <1>3, <1>4, <3>1, <3>2 DEF CapReached
  <2>3. QED
    BY <1>1, <2>1, <2>2
<1>8. ReadingInv'
  BY <1>1 DEF ReadingInv
<1>9. QED
  BY <1>1, <1>3, <1>5, <1>6, <1>7, <1>8 DEF ExpansionInv

LEMMA ExpansionStep == ExpansionInv /\ [FusionNext]_fusionVars => ExpansionInv'
<1> SUFFICES ASSUME ExpansionInv, [FusionNext]_fusionVars PROVE ExpansionInv'
  OBVIOUS
<1>1. CASE UNCHANGED expansionVars
  BY <1>1 DEF expansionVars, ExpansionInv, ReadingInv, Written, Exhausted, CapReached
<1>2. CASE SearchBM25 \/ SearchDense \/ FuseLegs \/ UNCHANGED fusionVars
  BY <1>1, <1>2 DEF SearchBM25, SearchDense, FuseLegs, fusionVars
<1>3. QED
  BY <1>2, AskModelExpands, NoModelExpands, ReadParaphraseExpands, ReadHydeExpands DEF FusionNext

\* The elements of a list are finitely many.
LEMMA ListIsFinite == ASSUME NEW S, NEW s \in Seq(S) PROVE IsFiniteSet(ToSet(s))
<1> DEFINE n == Len(s)
<1>1. n \in Nat /\ DOMAIN s = 1 .. n /\ s \in [1 .. n -> S]
  BY SeqDomain
<1> HIDE DEF n
<1>2. s \in Surjection(1 .. n, ToSet(s))
  <2>1. s \in [1 .. n -> ToSet(s)]
    BY <1>1 DEF ToSet
  <2>2. \A x \in ToSet(s) : \E i \in 1 .. n : s[i] = x
    BY <1>1 DEF ToSet
  <2>3. QED
    BY <2>1, <2>2 DEF Surjection
<1>3. IsFiniteSet(1 .. n)
  <2>1. 1 \in Int /\ n \in Int
    BY <1>1
  <2>2. QED
    BY <2>1, FS_Interval
<1>4. QED
  BY <1>2, <1>3, FS_Surjection

\* As many different ones are used as the cap lets in.
LEMMA CapCounts ==
    ASSUME ExpansionInv, variants # <<>>, variants[1] = Query, CapReached,
           NEW used, used = (Written \ {Query, NoText}) \cap ToSet(variants)
    PROVE  IsFiniteSet(used) /\ Cardinality(used) >= MaxParaphrases
<1> DEFINE m == MaxParaphrases
           f == [i \in 2 .. m + 1 |-> variants[i]]
<1>1. /\ Len(variants) \in Nat /\ DOMAIN variants = 1 .. Len(variants)
      /\ variants \in [1 .. Len(variants) -> Texts]
      /\ m \in Nat /\ Len(variants) > m
  BY SeqDomain, NumbersOfFusion DEF ExpansionInv, CapReached
<1>2. \A i \in 2 .. m + 1 : i \in 1 .. Len(variants) /\ i # 1 /\ 1 \in 1 .. Len(variants)
  BY <1>1
<1>3. \A i \in 2 .. m + 1 : f[i] \in used
  <2> SUFFICES ASSUME NEW i \in 2 .. m + 1 PROVE variants[i] \in used
    OBVIOUS
  <2>1. variants[i] \in Written /\ variants[i] \in Texts /\ variants[i] \in ToSet(variants)
    BY <1>1, <1>2 DEF CapReached, ToSet
  <2>2. variants[i] # variants[1]
    BY <1>1, <1>2 DEF ExpansionInv, IsInjective
  <2>3. QED
    BY <2>1, <2>2, NumbersOfFusion
<1>4. f \in Injection(2 .. m + 1, used)
  <2>1. f \in [2 .. m + 1 -> used]
    BY <1>3
  <2>2. IsInjective(f)
    BY <1>1, <1>2 DEF ExpansionInv, IsInjective
  <2>3. QED
    BY <2>1, <2>2 DEF Injection
<1>5. IsFiniteSet(used)
  <2>1. IsFiniteSet(ToSet(variants))
    BY ListIsFinite DEF ExpansionInv
  <2>2. QED
    BY <2>1, FS_Subset
<1>6. Cardinality(2 .. m + 1) <= Cardinality(used)
  <2> HIDE DEF f
  <2>1. QED
    BY <1>4, <1>5, FS_Injection
<1>7. Cardinality(2 .. m + 1) = m
  <2> DEFINE b == m + 1
  <2>1. 2 \in Int /\ b \in Int
    BY <1>1
  <2> HIDE DEF b
  <2>2. Cardinality(2 .. b) = IF 2 > b THEN 0 ELSE b - 2 + 1
    BY <2>1, FS_Interval
  <2>3. QED
    BY <1>1, <2>2 DEF b
<1>8. Cardinality(used) \in Nat
  BY <1>5, FS_CardinalityType
<1>9. QED
  BY <1>1, <1>5, <1>6, <1>7, <1>8

\* Whatever a model writes, and however long it is: the query is searched for
\* first, no text twice, and as many of the different texts it has written are
\* searched for as the cap allows.
THEOREM VariantsStayUseful == FusionSpec => []VariantsAreUseful
<1>1. ExpansionInv => VariantsAreUseful
  <2> SUFFICES ASSUME ExpansionInv, expansion = "done"
               PROVE  VariantsAreUseful
    BY DEF VariantsAreUseful
  <2> DEFINE useful == Written \ {Query, NoText}
             used   == useful \cap ToSet(variants)
  <2>1. /\ variants # <<>> /\ variants[1] = Query /\ IsInjective(variants)
        /\ Len(variants) <= MaxParaphrases + 2 /\ (Exhausted \/ CapReached)
    BY DEF ExpansionInv
  <2>2. IsFiniteSet(useful) /\ Cardinality(useful) \in Nat
    <3>1. IsFiniteSet(Written)
      BY ListIsFinite DEF ExpansionInv, Written
    <3>2. IsFiniteSet(useful)
      BY <3>1, FS_Subset
    <3>3. QED
      BY <3>2, FS_CardinalityType
  <2>3. Cardinality(used) >= IF Cardinality(useful) <= MaxParaphrases
                             THEN Cardinality(useful) ELSE MaxParaphrases
    <3>1. CASE Exhausted
      <4>1. used = useful
        BY <3>1 DEF Exhausted
      <4>2. QED
        BY <2>2, <4>1, NumbersOfFusion
    <3>2. CASE CapReached
      <4>1. IsFiniteSet(used) /\ Cardinality(used) >= MaxParaphrases
        BY <2>1, <3>2, CapCounts
      <4>2. Cardinality(used) \in Nat
        BY <4>1, FS_CardinalityType
      <4>3. QED
        BY <2>2, <4>1, <4>2, NumbersOfFusion
    <3>3. QED
      BY <2>1, <3>1, <3>2
  <2>4. QED
    BY <2>1, <2>3 DEF VariantsAreUseful, Written
<1>2. QED
  BY <1>1, ExpansionStarts, ExpansionStep, PTL DEF FusionSpec

-----------------------------------------------------------------------------
(* hybrid_search_chunk_ids *)

\* A ranking: chunks without repetition.
Ranking(s) == s \in Seq(Chunks) /\ IsInjective(s)

\* No leg is longer than its pool, and the result is the top of an order of
\* the chunks of both, best first.
SearchInv ==
    /\ legs \in Seq(Seq(Chunks))
    /\ Len(legs) <= 2
    /\ \A i \in DOMAIN legs : Ranking(legs[i]) /\ Len(legs[i]) <= LegPool
    /\ fused # <<>> =>
          /\ Len(legs) = 2
          /\ \E order \in SetToSeqs(Met(legs)) :
                Best(order, legs) /\ fused = AtTop(order, FusedPool)

-----------------------------------------------------------------------------
(* Reciprocal ranks *)

LEMMA WholeQuotient ==
    ASSUME NEW n \in Nat, NEW a \in Nat \ {0}, n % a = 0
    PROVE  n \div a \in Nat /\ n = a * (n \div a)
<1>1. PICK q \in Nat : n = a * q
  OBVIOUS
<1>2. q = n \div a
  BY <1>1
<1>3. QED
  BY <1>1, <1>2

LEMMA SmallerFactor ==
    ASSUME NEW a \in Nat, NEW b \in Nat, a < b, NEW q \in Nat \ {0}
    PROVE  a * q < b * q
OBVIOUS

\* Scale is a multiple of what a rank divides it by, and a worse rank has a
\* smaller share.
LEMMA ShareOfRank ==
    ASSUME NEW r \in 1 .. LegPool
    PROVE  /\ RRFK + r \in Nat \ {0}
           /\ Scale \div (RRFK + r) \in Nat \ {0}
           /\ Scale = (RRFK + r) * (Scale \div (RRFK + r))
<1> DEFINE a == RRFK + r
<1>1. a \in Nat \ {0} /\ Scale \in Nat \ {0} /\ Scale % a = 0
  BY NumbersOfFusion, ScaleAssumption
<1> HIDE DEF a
<1>2. Scale \div a \in Nat /\ Scale = a * (Scale \div a)
  BY <1>1, WholeQuotient
<1>3. Scale \div a # 0
  BY <1>1, <1>2
<1>4. QED
  BY <1>1, <1>2, <1>3 DEF a

LEMMA WorseRank ==
    ASSUME NEW r \in 1 .. LegPool, NEW s \in 1 .. LegPool, r < s
    PROVE  Scale \div (RRFK + r) > Scale \div (RRFK + s)
<1> DEFINE a == RRFK + r
           b == RRFK + s
           p == Scale \div a
           q == Scale \div b
<1>1. /\ a \in Nat \ {0} /\ p \in Nat \ {0} /\ Scale = a * p
      /\ b \in Nat \ {0} /\ q \in Nat \ {0} /\ Scale = b * q
  BY ShareOfRank
<1>2. a < b
  BY <1>1, NumbersOfFusion
<1> HIDE DEF a, b, p, q
<1>3. p > q
  <2> SUFFICES ASSUME p <= q PROVE FALSE
    BY <1>1
  <2>1. a * q < b * q
    BY <1>1, <1>2, SmallerFactor
  <2>2. a * p <= a * q
    BY <1>1
  <2>3. QED
    BY <1>1, <2>1, <2>2
<1>4. QED
  BY <1>3 DEF a, b, p, q

\* Two shares of the worst rank are more than one of the best.
LEMMA TwoBeatOne ==
    ASSUME NEW r \in 1 .. LegPool, NEW s \in 1 .. LegPool, NEW t \in 1 .. LegPool
    PROVE  Scale \div (RRFK + r) + Scale \div (RRFK + s) > Scale \div (RRFK + t)
<1> DEFINE a == RRFK + r
           b == RRFK + s
           c == RRFK + t
           p == Scale \div a
           q == Scale \div b
           o == Scale \div c
<1>1. /\ a \in Nat \ {0} /\ p \in Nat \ {0} /\ Scale = a * p
      /\ b \in Nat \ {0} /\ q \in Nat \ {0} /\ Scale = b * q
      /\ c \in Nat \ {0} /\ o \in Nat \ {0} /\ Scale = c * o
  BY ShareOfRank
<1>2. a < 2 * c /\ b < 2 * c
  BY <1>1, NumbersOfFusion
<1> HIDE DEF a, b, c, p, q, o
<1>3. o < 2 * p
  <2>1. a * p < (2 * c) * p
    BY <1>1, <1>2, SmallerFactor
  <2>2. (2 * c) * p = c * (2 * p)
    BY <1>1
  <2>3. c * o < c * (2 * p)
    BY <1>1, <2>1, <2>2
  <2>4. QED
    BY <1>1, <2>3
<1>4. o < 2 * q
  <2>1. b * q < (2 * c) * q
    BY <1>1, <1>2, SmallerFactor
  <2>2. (2 * c) * q = c * (2 * q)
    BY <1>1
  <2>3. c * o < c * (2 * q)
    BY <1>1, <2>1, <2>2
  <2>4. QED
    BY <1>1, <2>3
<1>5. p + q > o
  BY <1>1, <1>3, <1>4
<1>6. QED
  BY <1>5 DEF a, b, c, p, q, o

\* In a ranking without repetition every chunk has its place.
LEMMA PositionIs ==
    ASSUME NEW s, IsInjective(s), NEW i \in DOMAIN s
    PROVE  Position(s, s[i]) = i
BY DEF IsInjective, Position

LEMMA PositionOf ==
    ASSUME NEW s, Ranking(s), NEW c \in ToSet(s)
    PROVE  Position(s, c) \in 1 .. Len(s) /\ s[Position(s, c)] = c
<1>1. PICK i \in DOMAIN s : s[i] = c
  BY DEF ToSet
<1>2. DOMAIN s = 1 .. Len(s)
  BY SeqDomain DEF Ranking
<1>3. QED
  BY <1>1, <1>2 DEF Position

LEMMA ShareIsNumber ==
    ASSUME NEW s, Ranking(s), Len(s) <= LegPool, NEW c
    PROVE  /\ Share(c, s) \in Nat
           /\ c \in ToSet(s) => Share(c, s) > 0
           /\ c \in ToSet(s) => \E r \in 1 .. LegPool : Share(c, s) = Scale \div (RRFK + r)
<1>1. CASE c \notin ToSet(s)
  BY <1>1 DEF Share
<1>2. CASE c \in ToSet(s)
  <2> DEFINE r == Position(s, c)
  <2>1. r \in 1 .. Len(s) /\ Len(s) \in Nat
    BY <1>2, PositionOf, SeqDomain DEF Ranking
  <2>2. r \in 1 .. LegPool
    BY <2>1, NumbersOfFusion
  <2>3. Share(c, s) = Scale \div (RRFK + r)
    BY <1>2 DEF Share
  <2> HIDE DEF r
  <2>4. QED
    BY <2>2, <2>3, ShareOfRank
<1>3. QED
  BY <1>1, <1>2

\* Who is ahead in a ranking has the larger share of it.
LEMMA AheadHasMore ==
    ASSUME NEW s, Ranking(s), Len(s) <= LegPool, NEW c, NEW d, Ahead(c, d, s)
    PROVE  Share(c, s) > Share(d, s)
<1>1. c \in ToSet(s)
  BY DEF Ahead
<1>2. CASE d \notin ToSet(s)
  <2>1. Share(d, s) = 0
    BY <1>2 DEF Share
  <2>2. QED
    BY <1>1, <2>1, ShareIsNumber
<1>3. CASE d \in ToSet(s)
  <2> DEFINE p == Position(s, c)
             q == Position(s, d)
  <2>1. p \in 1 .. Len(s) /\ q \in 1 .. Len(s) /\ Len(s) \in Nat /\ p < q
    BY <1>1, <1>3, PositionOf, SeqDomain DEF Ranking, Ahead
  <2>2. p \in 1 .. LegPool /\ q \in 1 .. LegPool
    BY <2>1, NumbersOfFusion
  <2>3. /\ Share(c, s) = Scale \div (RRFK + p)
        /\ Share(d, s) = Scale \div (RRFK + q)
    BY <1>1, <1>3 DEF Share
  <2> HIDE DEF p, q
  <2>4. QED
    BY <2>1, <2>2, <2>3, WorseRank
<1>4. QED
  BY <1>2, <1>3

-----------------------------------------------------------------------------
(* Rankings *)

\* Every order of a finite set has each of its members once.
LEMMA OrderIsRanking ==
    ASSUME NEW S, IsFiniteSet(S), NEW order \in SetToSeqs(S)
    PROVE  /\ order \in Seq(S) /\ IsInjective(order) /\ Len(order) = Cardinality(S)
           /\ ToSet(order) = S
<1> DEFINE n == Cardinality(S)
<1>1. n \in Nat
  BY FS_CardinalityType
<1>2. order \in [1 .. n -> S] /\ \A i, j \in 1 .. n : i # j => order[i] # order[j]
  BY DEF SetToSeqs
<1>3. order \in Injection(1 .. n, S) /\ IsInjective(order)
  BY <1>2 DEF Injection, IsInjective
<1> HIDE DEF n
<1>4. Cardinality(1 .. n) = n
  <2>1. 1 \in Int /\ n \in Int
    BY <1>1
  <2>2. Cardinality(1 .. n) = IF 1 > n THEN 0 ELSE n - 1 + 1
    BY <2>1, FS_Interval
  <2>3. QED
    BY <1>1, <2>2
<1>5. order \in Surjection(1 .. n, S)
  BY <1>3, <1>4, FS_Injection DEF n
<1>6. order \in Seq(S) /\ Len(order) = n
  BY <1>1, <1>2
<1>7. ToSet(order) = S
  BY <1>2, <1>5 DEF Surjection, ToSet
<1>8. QED
  BY <1>3, <1>6, <1>7 DEF n

\* The top of a ranking is a ranking, and nobody in it has another place.
LEMMA TopIsRanking ==
    ASSUME NEW s, Ranking(s), NEW n \in Nat
    PROVE  /\ Ranking(AtTop(s, n))
           /\ Len(AtTop(s, n)) = IF n <= Len(s) THEN n ELSE Len(s)
           /\ DOMAIN AtTop(s, n) = 1 .. Len(AtTop(s, n))
           /\ \A i \in DOMAIN AtTop(s, n) : i \in DOMAIN s /\ AtTop(s, n)[i] = s[i]
<1> DEFINE m == IF n <= Len(s) THEN n ELSE Len(s)
<1>1. m \in Nat /\ m <= Len(s) /\ Len(s) \in Nat /\ DOMAIN s = 1 .. Len(s)
      /\ s \in [1 .. Len(s) -> Chunks]
  BY SeqDomain DEF Ranking
<1> HIDE DEF m
<1>2. SubSeq(s, 1, m) = [i \in 1 .. m |-> s[i]]
  BY <1>1
<1>3. AtTop(s, n) = [i \in 1 .. m |-> s[i]]
  BY <1>2 DEF AtTop, m
<1>4. \A i \in 1 .. m : i \in 1 .. Len(s)
  BY <1>1
<1>5. [i \in 1 .. m |-> s[i]] \in Seq(Chunks) /\ Len([i \in 1 .. m |-> s[i]]) = m
  BY <1>1, <1>4
<1>6. IsInjective([i \in 1 .. m |-> s[i]])
  BY <1>1, <1>4 DEF Ranking, IsInjective
<1>7. QED
  BY <1>1, <1>3, <1>4, <1>5, <1>6 DEF Ranking, m

LEMMA EmptyRanking == Ranking(<<>>) /\ Len(<<>>) = 0
BY DEF Ranking, IsInjective

\* Whatever the scores are, the best ones are a ranking within the pool.
LEMMA TopKIsRanking ==
    ASSUME NEW score, NEW order \in TopK(Chunks, score, LegPool)
    PROVE  Ranking(order) /\ Len(order) <= LegPool
<1> DEFINE n == Cardinality(Chunks)
           k == IF LegPool <= n THEN LegPool ELSE n
<1>1. n \in Nat /\ IsFiniteSet(Chunks)
  BY ChunksAssumption, FS_CardinalityType
<1>2. k \in Nat /\ k <= LegPool
  BY <1>1, NumbersOfFusion
<1>3. PICK T \in kSubset(k, Chunks) : order \in SetToSeqs(T)
  BY DEF TopK
<1>4. T \subseteq Chunks /\ Cardinality(T) = k
  BY <1>3 DEF kSubset
<1>5. IsFiniteSet(T)
  BY <1>1, <1>4, FS_Subset
<1>6. order \in Seq(T) /\ IsInjective(order) /\ Len(order) = k
  BY <1>3, <1>4, <1>5, OrderIsRanking
<1> HIDE DEF k, n
<1>7. order \in Seq(Chunks)
  <2>1. order \in [1 .. Len(order) -> T] /\ Len(order) \in Nat
    BY <1>6, SeqDomain
  <2>2. order \in [1 .. Len(order) -> Chunks]
    BY <1>4, <2>1
  <2>3. QED
    BY <2>1, <2>2
<1>8. QED
  BY <1>2, <1>6, <1>7 DEF Ranking

LEMMA BM25LegIsRanking ==
    ASSUME NEW score, NEW order, Ranking(order), Len(order) <= LegPool
    PROVE  Ranking(BM25Leg(order, score)) /\ Len(BM25Leg(order, score)) <= LegPool
<1> DEFINE found == {i \in DOMAIN order : score[order[i]] > 0}
           n == Cardinality(found)
<1>1. Len(order) \in Nat /\ DOMAIN order = 1 .. Len(order)
  BY SeqDomain DEF Ranking
<1>2. IsFiniteSet(1 .. Len(order)) /\ found \subseteq 1 .. Len(order)
  BY <1>1, FS_Interval
<1>3. n \in Nat
  <2>1. IsFiniteSet(found)
    BY <1>2, FS_Subset
  <2>2. QED
    BY <2>1, FS_CardinalityType
<1>4. BM25Leg(order, score) = AtTop(order, n)
  BY DEF BM25Leg
<1> HIDE DEF n
<1>5. Ranking(AtTop(order, n)) /\ Len(AtTop(order, n)) <= Len(order)
  BY <1>1, <1>3, TopIsRanking
<1>6. QED
  BY <1>1, <1>4, <1>5, NumbersOfFusion, SeqDomain DEF Ranking

LEMMA SearchStarts == FusionInit => SearchInv
<1> SUFFICES ASSUME FusionInit PROVE SearchInv
  OBVIOUS
<1>1. legs = <<>> /\ fused = <<>>
  BY DEF FusionInit
<1>2. <<>> \in Seq(Seq(Chunks)) /\ Len(<<>>) <= 2 /\ DOMAIN <<>> = {}
  OBVIOUS
<1>3. QED
  BY <1>1, <1>2 DEF SearchInv

LEMMA SearchBM25Keeps == ASSUME SearchInv, SearchBM25 PROVE SearchInv'
<1>1. PICK score \in [Chunks -> Scores] : \E order \in TopK(Chunks, score, LegPool) :
          legs' = <<BM25Leg(order, score)>>
  BY DEF SearchBM25
<1>2. PICK order \in TopK(Chunks, score, LegPool) : legs' = <<BM25Leg(order, score)>>
  BY <1>1
<1> DEFINE leg == BM25Leg(order, score)
<1>3. Ranking(leg) /\ Len(leg) <= LegPool
  BY TopKIsRanking, BM25LegIsRanking
<1>4. legs' = <<leg>>
  BY <1>2
<1>5. fused' = fused /\ fused = <<>>
  BY DEF SearchBM25, Idle, SearchInv
<1> HIDE DEF leg
<1>6. leg \in Seq(Chunks)
  BY <1>3 DEF Ranking
<1>7. <<leg>> \in Seq(Seq(Chunks)) /\ Len(<<leg>>) = 1 /\ DOMAIN <<leg>> = 1 .. 1 /\ <<leg>>[1] = leg
  BY <1>6
<1>8. \A i \in 1 .. 1 : i = 1
  OBVIOUS
<1>9. QED
  BY <1>3, <1>4, <1>5, <1>7, <1>8 DEF SearchInv

LEMMA SearchDenseKeeps == ASSUME SearchInv, SearchDense PROVE SearchInv'
<1>1. \E leg : legs' = Append(legs, leg) /\ Ranking(leg) /\ Len(leg) <= LegPool
  <2>1. CASE legs' = Append(legs, <<>>)
    BY <2>1, EmptyRanking, NumbersOfFusion
  <2>2. CASE \E score \in [Chunks -> Scores] : \E order \in TopK(Chunks, score, LegPool) :
               legs' = Append(legs, order)
    BY <2>2, TopKIsRanking
  <2>3. QED
    BY <2>1, <2>2 DEF SearchDense
<1>2. PICK leg : legs' = Append(legs, leg) /\ Ranking(leg) /\ Len(leg) <= LegPool
  BY <1>1
<1>3. /\ Len(legs) = 1 /\ legs \in Seq(Seq(Chunks)) /\ leg \in Seq(Chunks)
      /\ \A i \in DOMAIN legs : Ranking(legs[i]) /\ Len(legs[i]) <= LegPool
      /\ fused' = fused /\ fused = <<>>
  BY <1>2 DEF SearchDense, SearchInv, Ranking
<1>4. /\ legs' \in Seq(Seq(Chunks)) /\ Len(legs') = 2
      /\ legs'[1] = legs[1] /\ legs'[2] = leg
  <2> DEFINE S == Seq(Chunks)
  <2>1. legs \in Seq(S) /\ leg \in S
    BY <1>3
  <2> HIDE DEF S
  <2>2. /\ Append(legs, leg) \in Seq(S) /\ Len(Append(legs, leg)) = Len(legs) + 1
        /\ \A i \in 1 .. Len(legs) : Append(legs, leg)[i] = legs[i]
        /\ Append(legs, leg)[Len(legs) + 1] = leg
    BY <2>1, AppendProperties
  <2>3. 1 \in 1 .. 1
    OBVIOUS
  <2>4. QED
    BY <1>2, <1>3, <2>2, <2>3 DEF S
<1>5. DOMAIN legs = 1 .. 1 /\ DOMAIN legs' = 1 .. 2
  BY <1>3, <1>4, SeqDomain
<1>6. \A i \in 1 .. 2 : i = 1 \/ i = 2
  OBVIOUS
<1>7. 1 \in 1 .. 1
  OBVIOUS
<1>8. \A i \in DOMAIN legs' : Ranking(legs'[i]) /\ Len(legs'[i]) <= LegPool
  BY <1>2, <1>3, <1>4, <1>5, <1>6, <1>7
<1>9. QED
  BY <1>3, <1>4, <1>8 DEF SearchInv

LEMMA SearchStep == SearchInv /\ [FusionNext]_fusionVars => SearchInv'
<1> SUFFICES ASSUME SearchInv, [FusionNext]_fusionVars PROVE SearchInv'
  OBVIOUS
<1>1. CASE UNCHANGED legVars
  BY <1>1 DEF legVars, SearchInv
<1>2. CASE FuseLegs
  <2>1. /\ legs' = legs /\ Len(legs) = 2
        /\ \E order \in SetToSeqs(Met(legs)) :
              Best(order, legs) /\ fused' = AtTop(order, FusedPool)
    BY <1>2 DEF FuseLegs
  <2>2. QED
    BY <2>1 DEF SearchInv
<1>3. CASE AskModel \/ NoModel \/ ReadParaphrase \/ ReadHyde \/ UNCHANGED fusionVars
  BY <1>1, <1>3 DEF AskModel, NoModel, ReadParaphrase, ReadHyde, fusionVars
<1>4. QED
  BY <1>2, <1>3, SearchBM25Keeps, SearchDenseKeeps DEF FusionNext

LEMMA SearchAlways == FusionSpec => []SearchInv
BY SearchStarts, SearchStep, PTL DEF FusionSpec

-----------------------------------------------------------------------------
(* The fused ranking *)

LEMMA TwoLegs ==
    ASSUME SearchInv, Len(legs) = 2
    PROVE  /\ Ranking(legs[1]) /\ Len(legs[1]) <= LegPool
           /\ Ranking(legs[2]) /\ Len(legs[2]) <= LegPool
<1>1. DOMAIN legs = 1 .. 2
  BY SeqDomain DEF SearchInv
<1>2. 1 \in 1 .. 2 /\ 2 \in 1 .. 2
  OBVIOUS
<1>3. QED
  BY <1>1, <1>2 DEF SearchInv

LEMMA MetAreFinite ==
    ASSUME SearchInv, Len(legs) = 2
    PROVE  IsFiniteSet(Met(legs)) /\ Met(legs) \subseteq Chunks
<1>1. ToSet(legs[1]) \subseteq Chunks /\ ToSet(legs[2]) \subseteq Chunks
  BY TwoLegs, SeqDomain DEF Ranking, ToSet
<1>2. Met(legs) \subseteq Chunks
  BY <1>1 DEF Met
<1>3. QED
  BY <1>2, ChunksAssumption, FS_Subset

\* Of two chunks that were met the one with the larger sum is ahead of the
\* other one, if that is in the result at all.
LEMMA MoreIsAhead ==
    ASSUME SearchInv, fused # <<>>, NEW c \in Met(legs), NEW d \in ToSet(fused),
           Reciprocal(c, legs) \in Nat, Reciprocal(d, legs) \in Nat,
           Reciprocal(c, legs) > Reciprocal(d, legs)
    PROVE  Ahead(c, d, fused)
<1>1. PICK order \in SetToSeqs(Met(legs)) : Best(order, legs) /\ fused = AtTop(order, FusedPool)
  BY DEF SearchInv
<1>2. Len(legs) = 2
  BY DEF SearchInv
<1>3. /\ order \in Seq(Met(legs)) /\ IsInjective(order) /\ ToSet(order) = Met(legs)
  BY <1>1, <1>2, MetAreFinite, OrderIsRanking
<1>4. Len(order) \in Nat /\ DOMAIN order = 1 .. Len(order) /\ order \in [1 .. Len(order) -> Met(legs)]
  BY <1>3, SeqDomain
<1>5. Ranking(order)
  <2>1. order \in [1 .. Len(order) -> Chunks]
    BY <1>2, <1>4, MetAreFinite
  <2>2. QED
    BY <1>3, <1>4, <2>1 DEF Ranking
<1>6. /\ Ranking(fused) /\ Len(fused) = IF FusedPool <= Len(order) THEN FusedPool ELSE Len(order)
      /\ DOMAIN fused = 1 .. Len(fused)
      /\ \A i \in DOMAIN fused : i \in DOMAIN order /\ fused[i] = order[i]
  BY <1>1, <1>5, NumbersOfFusion, TopIsRanking
<1>7. PICK j \in DOMAIN fused : fused[j] = d
  BY DEF ToSet
<1>8. PICK i \in DOMAIN order : order[i] = c
  BY <1>3 DEF ToSet
<1>9. j \in DOMAIN order /\ order[j] = d
  BY <1>6, <1>7
<1>10. i < j
  <2> SUFFICES ASSUME ~(i < j) PROVE FALSE
    OBVIOUS
  <2>1. j < i
    <3>1. i # j
      BY <1>8, <1>9
    <3>2. QED
      BY <1>4, <1>8, <1>9, <3>1
  <2>2. d \in Met(legs) /\ order[i] \in Met(legs) /\ order[j] \in Met(legs)
    BY <1>4, <1>8, <1>9
  <2>3. \/ Reciprocal(order[j], legs) > Reciprocal(order[i], legs)
        \/ Reciprocal(order[j], legs) = Reciprocal(order[i], legs)
    BY <1>1, <1>4, <1>8, <1>9, <2>1, <2>2 DEF Best
  <2>4. QED
    BY <1>8, <1>9, <2>3
<1>11. i \in DOMAIN fused /\ fused[i] = c
  <2>1. i \in 1 .. Len(fused)
    BY <1>4, <1>6, <1>7, <1>8, <1>10, NumbersOfFusion
  <2>2. QED
    BY <1>6, <1>8, <2>1
<1>12. Position(fused, c) = i /\ Position(fused, d) = j
  BY <1>6, <1>7, <1>11, PositionIs DEF Ranking
<1>13. c \in ToSet(fused)
  BY <1>11 DEF ToSet
<1>14. QED
  BY <1>10, <1>12, <1>13 DEF Ahead

LEMMA FusedWereMet == ASSUME SearchInv, NEW d \in ToSet(fused), fused # <<>> PROVE d \in Met(legs)
<1>1. PICK order \in SetToSeqs(Met(legs)) : fused = AtTop(order, FusedPool)
  BY DEF SearchInv
<1>2. Len(legs) = 2
  BY DEF SearchInv
<1>3. order \in Seq(Met(legs)) /\ IsInjective(order)
  BY <1>1, <1>2, MetAreFinite, OrderIsRanking
<1>4. Len(order) \in Nat /\ DOMAIN order = 1 .. Len(order) /\ order \in [1 .. Len(order) -> Met(legs)]
  BY <1>3, SeqDomain
<1>5. Ranking(order)
  <2>1. order \in [1 .. Len(order) -> Chunks]
    BY <1>2, <1>4, MetAreFinite
  <2>2. QED
    BY <1>3, <1>4, <2>1 DEF Ranking
<1>6. PICK j \in DOMAIN fused : fused[j] = d
  BY DEF ToSet
<1>7. j \in DOMAIN order /\ order[j] = d
  BY <1>1, <1>5, <1>6, NumbersOfFusion, TopIsRanking
<1>8. QED
  BY <1>4, <1>7

LEMMA SumIsNumber ==
    ASSUME SearchInv, Len(legs) = 2, NEW c
    PROVE  /\ Share(c, legs[1]) \in Nat /\ Share(c, legs[2]) \in Nat
           /\ Reciprocal(c, legs) = Share(c, legs[1]) + Share(c, legs[2])
           /\ Reciprocal(c, legs) \in Nat
<1>1. Share(c, legs[1]) \in Nat /\ Share(c, legs[2]) \in Nat
  BY TwoLegs, ShareIsNumber
<1>2. QED
  BY <1>1 DEF Reciprocal

\* Where both legs agree on two chunks the fused ranking agrees with them.
THEOREM LegsAgreementIsKept == FusionSpec => []AgreementIsKept
<1>1. SearchInv => AgreementIsKept
  <2> SUFFICES ASSUME SearchInv, NEW c \in Chunks, NEW d \in Chunks,
                      fused # <<>>, c # d, d \in ToSet(fused),
                      \A i \in 1 .. 2 : Ahead(c, d, legs[i])
               PROVE  Ahead(c, d, fused)
    BY DEF AgreementIsKept
  <2>1. Len(legs) = 2
    BY DEF SearchInv
  <2>2. Ahead(c, d, legs[1]) /\ Ahead(c, d, legs[2])
    <3>1. 1 \in 1 .. 2 /\ 2 \in 1 .. 2
      OBVIOUS
    <3>2. QED
      BY <3>1
  <2>3. Share(c, legs[1]) > Share(d, legs[1]) /\ Share(c, legs[2]) > Share(d, legs[2])
    BY <2>1, <2>2, TwoLegs, AheadHasMore
  <2>4. Reciprocal(c, legs) > Reciprocal(d, legs)
    BY <2>1, <2>3, SumIsNumber
  <2>5. c \in Met(legs)
    BY <2>2 DEF Ahead, Met
  <2>6. QED
    BY <2>1, <2>4, <2>5, SumIsNumber, MoreIsAhead
<1>2. QED
  BY <1>1, SearchAlways, PTL

\* Two finds, however far down, are worth more than one at the top, as long as
\* the pools are not longer than RRF_K + 1.
THEOREM TwoLegsBeatOne == FusionSpec => []BothLegsBeatOne
<1>1. SearchInv => BothLegsBeatOne
  <2> SUFFICES ASSUME SearchInv, NEW c \in Chunks, NEW d \in Chunks,
                      fused # <<>>, c \in ToSet(legs[1]), c \in ToSet(legs[2]),
                      d \in ToSet(fused),
                      d \notin ToSet(legs[1]) \cap ToSet(legs[2])
               PROVE  Ahead(c, d, fused)
    BY DEF BothLegsBeatOne
  <2>1. Len(legs) = 2
    BY DEF SearchInv
  <2>2. PICK r \in 1 .. LegPool : Share(c, legs[1]) = Scale \div (RRFK + r)
    BY <2>1, TwoLegs, ShareIsNumber
  <2>3. PICK s \in 1 .. LegPool : Share(c, legs[2]) = Scale \div (RRFK + s)
    BY <2>1, TwoLegs, ShareIsNumber
  <2>4. \E t \in 1 .. LegPool : Reciprocal(d, legs) = Scale \div (RRFK + t)
    <3>1. d \in ToSet(legs[1]) \/ d \in ToSet(legs[2])
      BY FusedWereMet DEF Met
    <3>2. CASE d \in ToSet(legs[1])
      <4>1. PICK t \in 1 .. LegPool : Share(d, legs[1]) = Scale \div (RRFK + t)
        BY <2>1, <3>2, TwoLegs, ShareIsNumber
      <4>2. Share(d, legs[2]) = 0
        BY <3>2 DEF Share
      <4>3. Reciprocal(d, legs) = Share(d, legs[1])
        BY <2>1, <4>2, SumIsNumber
      <4>4. QED
        BY <4>1, <4>3
    <3>3. CASE d \in ToSet(legs[2])
      <4>1. PICK t \in 1 .. LegPool : Share(d, legs[2]) = Scale \div (RRFK + t)
        BY <2>1, <3>3, TwoLegs, ShareIsNumber
      <4>2. Share(d, legs[1]) = 0
        BY <3>3 DEF Share
      <4>3. Reciprocal(d, legs) = Share(d, legs[2])
        BY <2>1, <4>2, SumIsNumber
      <4>4. QED
        BY <4>1, <4>3
    <3>4. QED
      BY <3>1, <3>2, <3>3
  <2>5. PICK t \in 1 .. LegPool : Reciprocal(d, legs) = Scale \div (RRFK + t)
    BY <2>4
  <2>6. Scale \div (RRFK + r) + Scale \div (RRFK + s) > Scale \div (RRFK + t)
    BY TwoBeatOne
  <2>7. Reciprocal(c, legs) > Reciprocal(d, legs)
    BY <2>1, <2>2, <2>3, <2>5, <2>6, SumIsNumber
  <2>8. c \in Met(legs)
    BY DEF Met
  <2>9. QED
    BY <2>1, <2>7, <2>8, SumIsNumber, MoreIsAhead
<1>2. QED
  BY <1>1, SearchAlways, PTL

-----------------------------------------------------------------------------
(* recursive_split *)

PieceSet == [text : Seq(Int), from : Int]
PieceLists == Seq(PieceSet)
CallSet == [done : PieceLists, packed : Int, at : Int, to : Int]

\* A piece begins with an overlap of earlier characters, if with any, and goes
\* on with characters in a row.
Sound(n, c) ==
    /\ c \in PieceSet
    /\ Len(c.text) \in 1 .. MaxSize + n
    /\ \E m \in 0 .. Len(c.text) - 1 :
          /\ \A k \in 1 .. m : c.text[k] < c.from
          /\ \A k \in m + 1 .. Len(c.text) : c.text[k] = c.from + k - m - 1

\* The pieces of s have all words of the text t from a up to b in their order.
Covers(t, n, s, a, b) ==
    /\ s \in PieceLists
    /\ \A i \in DOMAIN s : Sound(n, s[i]) /\ a <= s[i].from /\ Last(s[i].text) < b
    /\ \A i, j \in DOMAIN s : i < j => Last(s[i].text) < s[j].from
    /\ \A p \in a .. b - 1 : Blank(t[p]) \/ \E i \in DOMAIN s : p \in Own(s[i])

\* Where the text of a call begins: its caller waits with an empty buffer.
Start(fs, k) == IF k = 1 THEN 1 ELSE fs[k - 1].packed

\* Every call has covered what it has read, but for its buffer, or for the
\* part that the next call splits.
Nested(t, n, fs) ==
    /\ fs \in Seq(CallSet)
    /\ \A k \in 1 .. Len(fs) :
          /\ Start(fs, k) <= fs[k].packed
          /\ fs[k].packed <= fs[k].at
          /\ fs[k].at <= fs[k].to + 1
          /\ Covers(t, n, fs[k].done, Start(fs, k), fs[k].packed)
          /\ fs[k].to = IF k = 1 THEN Len(t) ELSE fs[k - 1].at - 1

SplitInv ==
    /\ passage \in Seq(Characters) /\ overlap \in Nat
    /\ Nested(passage, overlap, frames)
    /\ Depth <= 5
    /\ frames # <<>> => BufLen <= MaxSize /\ pieces = <<>> /\ chunks = <<>>
    /\ passage = <<>> => frames = <<>> /\ pieces = <<>> /\ chunks = <<>>
    /\ frames = <<>> => \E b \in 1 .. Len(passage) + 1 :
           /\ Covers(passage, overlap, chunks, 1, b)
           /\ Covers(passage, overlap, pieces, b, Len(passage) + 1)

LEMMA SizeIsNumber == MaxSize \in Nat \ {0} /\ MaxPassage \in Nat /\ Overlaps \subseteq Nat
BY SizesAssumption

\* Nothing in a sound piece is beyond its last character, and its own part is
\* in its text.
LEMMA SoundPiece ==
    ASSUME NEW n \in Nat, NEW c, Sound(n, c)
    PROVE  /\ c.from \in Int /\ Last(c.text) \in Int /\ c.from <= Last(c.text)
           /\ c.text \in Seq(Int) /\ Len(c.text) \in 1 .. MaxSize + n
           /\ \A k \in 1 .. Len(c.text) : c.text[k] \in Int /\ c.text[k] <= Last(c.text)
           /\ \A p \in Own(c) : p \in ToSet(c.text)
<1> DEFINE s == c.text
           z == Len(s)
           f == c.from
<1>1. /\ s \in Seq(Int) /\ f \in Int /\ z \in 1 .. MaxSize + n /\ z \in Nat
      /\ \A k \in 1 .. z : s[k] \in Int
      /\ DOMAIN s = 1 .. z
  BY SeqDomain DEF Sound, PieceSet
<1>2. PICK m \in 0 .. z - 1 :
          /\ \A k \in 1 .. m : s[k] < f
          /\ \A k \in m + 1 .. z : s[k] = f + k - m - 1
  BY DEF Sound
<1>3. Last(s) = s[z]
  BY DEF Last
<1>4. Own(c) = f .. Last(s)
  BY DEF Own
<1>5. Len(c.text) \in 1 .. MaxSize + n
  BY DEF Sound
<1> HIDE DEF s, z, f
<1>6. z \in m + 1 .. z /\ z \in 1 .. z
  BY <1>1, <1>2
<1>7. Last(s) = f + z - m - 1
  BY <1>2, <1>3, <1>6
<1>8. f <= Last(s) /\ Last(s) \in Int
  BY <1>1, <1>2, <1>7
<1>9. \A k \in 1 .. z : s[k] \in Int /\ s[k] <= Last(s)
  <2> SUFFICES ASSUME NEW k \in 1 .. z PROVE s[k] <= Last(s)
    BY <1>1
  <2>1. k \in 1 .. m \/ k \in m + 1 .. z
    BY <1>1, <1>2
  <2>2. s[k] \in Int
    BY <1>1
  <2>3. QED
    BY <1>1, <1>2, <1>7, <1>8, <2>1, <2>2
<1>10. \A p \in f .. Last(s) : p \in ToSet(s)
  <2> SUFFICES ASSUME NEW p \in f .. Last(s) PROVE p \in ToSet(s)
    OBVIOUS
  <2> DEFINE k == p - f + m + 1
  <2>1. k \in m + 1 .. z /\ k \in 1 .. z /\ f + k - m - 1 = p
    BY <1>1, <1>2, <1>7
  <2>2. s[k] = p
    BY <1>2, <2>1
  <2>3. QED
    BY <1>1, <2>1, <2>2 DEF ToSet
<1>11. QED
  BY <1>1, <1>4, <1>5, <1>8, <1>9, <1>10 DEF s, z, f

\* What the buffer held is a sound piece.
LEMMA NewPiece ==
    ASSUME NEW n \in Nat, NEW a \in Int, NEW b \in Int, a <= b, b - a + 1 <= MaxSize
    PROVE  /\ Sound(n, Piece(a, b)) /\ Piece(a, b) \in PieceSet
           /\ Piece(a, b).from = a /\ Last(Piece(a, b).text) = b
<1> DEFINE z == b - a + 1
           s == [i \in 1 .. z |-> a + i - 1]
           c == Piece(a, b)
<1>1. c.text = s /\ c.from = a /\ c = [text |-> s, from |-> a]
  BY DEF Piece
<1>2. z \in Nat /\ z >= 1 /\ z <= MaxSize
  BY SizeIsNumber
<1>3. s \in Seq(Int) /\ Len(s) = z /\ \A k \in 1 .. z : s[k] = a + k - 1
  <2> HIDE DEF z
  <2>1. \A i \in 1 .. z : a + i - 1 \in Int
    BY <1>2
  <2>2. QED
    BY <1>2, <2>1
<1>4. s[z] = b
  <2>1. z \in 1 .. z
    BY <1>2
  <2>2. a + z - 1 = b
    OBVIOUS
  <2> HIDE DEF s
  <2>3. QED
    BY <1>3, <2>1, <2>2
<1> HIDE DEF s, z, c
<1>5. Last(c.text) = b
  BY <1>1, <1>3, <1>4 DEF Last
<1>6. c \in PieceSet
  BY <1>1, <1>3 DEF PieceSet
<1>7. z \in 1 .. MaxSize + n
  BY <1>2, SizeIsNumber
<1>8. /\ 0 \in 0 .. z - 1
      /\ \A k \in 1 .. 0 : s[k] < a
      /\ \A k \in 0 + 1 .. z : s[k] = a + k - 0 - 1
  BY <1>2, <1>3
<1>9. Sound(n, c)
  BY <1>1, <1>3, <1>6, <1>7, <1>8 DEF Sound
<1>10. QED
  BY <1>1, <1>5, <1>6, <1>9 DEF c

LEMMA CoversBlank ==
    ASSUME NEW t, NEW n \in Nat, NEW a \in Int, NEW b \in Int, \A p \in a .. b - 1 : Blank(t[p])
    PROVE  Covers(t, n, <<>>, a, b)
<1>1. <<>> \in PieceLists /\ DOMAIN <<>> = {}
  BY DEF PieceLists
<1>2. QED
  BY <1>1 DEF Covers

LEMMA CoversPiece ==
    ASSUME NEW t, NEW n \in Nat, NEW a \in Int, NEW b \in Int, a <= b, b - a + 1 <= MaxSize
    PROVE  Covers(t, n, <<Piece(a, b)>>, a, b + 1)
<1> DEFINE c == Piece(a, b)
           s == <<c>>
<1>1. Sound(n, c) /\ c \in PieceSet /\ c.from = a /\ Last(c.text) = b
  BY NewPiece
<1> HIDE DEF c
<1>2. s \in PieceLists /\ DOMAIN s = {1} /\ s[1] = c
  BY <1>1 DEF PieceLists
<1>3. \A p \in a .. (b + 1) - 1 : p \in Own(c)
  BY <1>1 DEF Own
<1> HIDE DEF s
<1>4. Covers(t, n, s, a, b + 1)
  BY <1>1, <1>2, <1>3 DEF Covers
<1>5. QED
  BY <1>4 DEF s, c

\* Two lists that cover adjacent parts of a text cover both of them together.
LEMMA CoversBoth ==
    ASSUME NEW t, NEW n \in Nat, NEW a \in Int, NEW b \in Int, NEW c \in Int, a <= b, b <= c,
           NEW r, Covers(t, n, r, a, b), NEW s, Covers(t, n, s, b, c)
    PROVE  Covers(t, n, r \o s, a, c)
<1> DEFINE q == r \o s
           x == Len(r)
           y == Len(s)
<1>1. r \in Seq(PieceSet) /\ s \in Seq(PieceSet)
  BY DEF Covers, PieceLists
<1>2. /\ x \in Nat /\ y \in Nat /\ DOMAIN r = 1 .. x /\ DOMAIN s = 1 .. y
      /\ q \in Seq(PieceSet) /\ DOMAIN q = 1 .. x + y
      /\ \A i \in 1 .. x + y : q[i] = IF i <= x THEN r[i] ELSE s[i - x]
  BY <1>1, SeqDomain, ConcatProperties
<1> HIDE DEF q, x, y
<1>3. \A i \in 1 .. x : i \in 1 .. x + y /\ q[i] = r[i]
  BY <1>2
<1>4. \A i \in x + 1 .. x + y : i \in 1 .. x + y /\ i - x \in 1 .. y /\ q[i] = s[i - x]
  BY <1>2
<1>5. \A i \in 1 .. x + y : i \in 1 .. x \/ i \in x + 1 .. x + y
  BY <1>2
<1>6. /\ \A i \in 1 .. x : /\ Sound(n, r[i]) /\ a <= r[i].from /\ Last(r[i].text) < b
                           /\ r[i].from \in Int /\ Last(r[i].text) \in Int
      /\ \A i \in 1 .. y : /\ Sound(n, s[i]) /\ b <= s[i].from /\ Last(s[i].text) < c
                           /\ s[i].from \in Int /\ Last(s[i].text) \in Int
  BY <1>2, SoundPiece DEF Covers
<1>7. \A i \in 1 .. x + y : Sound(n, q[i]) /\ a <= q[i].from /\ Last(q[i].text) < c
  <2> SUFFICES ASSUME NEW i \in 1 .. x + y
               PROVE  Sound(n, q[i]) /\ a <= q[i].from /\ Last(q[i].text) < c
    OBVIOUS
  <2>1. CASE i \in 1 .. x
    BY <1>3, <1>6, <2>1
  <2>2. CASE i \in x + 1 .. x + y
    BY <1>4, <1>6, <2>2
  <2>3. QED
    BY <1>5, <2>1, <2>2
<1>8. \A i, j \in 1 .. x + y : i < j => Last(q[i].text) < q[j].from
  <2> SUFFICES ASSUME NEW i \in 1 .. x + y, NEW j \in 1 .. x + y, i < j
               PROVE  Last(q[i].text) < q[j].from
    OBVIOUS
  <2>1. CASE i \in 1 .. x /\ j \in 1 .. x
    BY <1>2, <1>3, <2>1 DEF Covers
  <2>2. CASE i \in 1 .. x /\ j \in x + 1 .. x + y
    BY <1>3, <1>4, <1>6, <2>2
  <2>3. CASE i \in x + 1 .. x + y /\ j \in x + 1 .. x + y
    <3>1. i - x < j - x
      BY <1>2
    <3>2. QED
      BY <1>2, <1>4, <2>3, <3>1 DEF Covers
  <2>4. ~(i \in x + 1 .. x + y /\ j \in 1 .. x)
    BY <1>2
  <2>5. QED
    BY <1>5, <2>1, <2>2, <2>3, <2>4
<1>9. \A p \in a .. c - 1 : Blank(t[p]) \/ \E i \in 1 .. x + y : p \in Own(q[i])
  <2> SUFFICES ASSUME NEW p \in a .. c - 1, ~Blank(t[p])
               PROVE  \E i \in 1 .. x + y : p \in Own(q[i])
    OBVIOUS
  <2>1. CASE p \in a .. b - 1
    <3>1. PICK i \in 1 .. x : p \in Own(r[i])
      BY <1>2, <2>1 DEF Covers
    <3>2. QED
      BY <1>3, <3>1
  <2>2. CASE p \in b .. c - 1
    <3>1. PICK i \in 1 .. y : p \in Own(s[i])
      BY <1>2, <2>2 DEF Covers
    <3>2. x + i \in x + 1 .. x + y /\ (x + i) - x = i
      BY <1>2
    <3>3. QED
      BY <1>4, <3>1, <3>2
  <2>3. QED
    BY <2>1, <2>2
<1>10. Covers(t, n, q, a, c)
  BY <1>2, <1>7, <1>8, <1>9 DEF Covers, PieceLists
<1>11. QED
  BY <1>10 DEF q

\* The tail of a text is as long as the overlap or as the text.
LEMMA TailOfText ==
    ASSUME NEW s \in Seq(Int), NEW n \in Nat
    PROVE  LET r == TailOf(s, n)
           IN  /\ r \in Seq(Int) /\ Len(r) \in 0 .. Len(s)
               /\ \A k \in 1 .. Len(r) : Len(s) - Len(r) + k \in 1 .. Len(s)
                                         /\ r[k] = s[Len(s) - Len(r) + k]
<1> DEFINE z == Len(s)
           r == TailOf(s, n)
<1>1. z \in Nat /\ \A k \in 1 .. z : s[k] \in Int
  BY SeqDomain
<1>2. CASE z > n
  <2>1. r = SubSeq(s, z - n + 1, z)
    BY <1>2 DEF TailOf
  <2>2. z - n + 1 \in Int /\ z \in Int /\ \A k \in z - n + 1 .. z : s[k] \in Int
    BY <1>1, <1>2
  <2>3. /\ r \in Seq(Int) /\ Len(r) = (IF z - n + 1 <= z THEN z - (z - n + 1) + 1 ELSE 0)
        /\ \A k \in 1 .. z - (z - n + 1) + 1 : r[k] = s[(z - n + 1) + k - 1]
    BY <2>1, <2>2, SubSeqProperties
  <2>4. Len(r) = n
    BY <1>1, <1>2, <2>3
  <2>5. \A k \in 1 .. n : /\ k \in 1 .. z - (z - n + 1) + 1 /\ (z - n + 1) + k - 1 = z - n + k
                          /\ z - n + k \in 1 .. z
    BY <1>1, <1>2
  <2> HIDE DEF r, z
  <2>6. r \in Seq(Int) /\ Len(r) \in 0 .. z
        /\ \A k \in 1 .. Len(r) : z - Len(r) + k \in 1 .. z /\ r[k] = s[z - Len(r) + k]
    <3>1. n \in 0 .. z
      BY <1>1, <1>2 DEF z
    <3>2. \A k \in 1 .. n : z - n + k \in 1 .. z /\ r[k] = s[z - n + k]
      BY <2>3, <2>5 DEF r, z
    <3>3. QED
      BY <2>3, <2>4, <3>1, <3>2
  <2>7. QED
    BY <2>6 DEF r, z
<1>3. CASE ~(z > n)
  <2>1. r = s
    BY <1>3 DEF TailOf
  <2>2. \A k \in 1 .. z : z - z + k = k
    BY <1>1
  <2>3. QED
    BY <1>1, <2>1, <2>2
<1>4. QED
  BY <1>2, <1>3

\* A sound piece stays sound with earlier characters in front.
LEMMA TailInFront ==
    ASSUME NEW n \in Nat, NEW c, Sound(n, c), NEW r \in Seq(Int),
           \A k \in 1 .. Len(r) : r[k] < c.from, Len(r) + Len(c.text) <= MaxSize + n
    PROVE  LET d == [c EXCEPT !.text = r \o @]
           IN  Sound(n, d) /\ d.from = c.from /\ Last(d.text) = Last(c.text)
<1> DEFINE s == c.text
           f == c.from
           q == r \o s
           d == [c EXCEPT !.text = r \o @]
           x == Len(r)
           z == Len(s)
<1>1. /\ c \in PieceSet /\ s \in Seq(Int) /\ f \in Int
      /\ x \in Nat /\ z \in Nat /\ z >= 1 /\ x + z <= MaxSize + n
      /\ d = [text |-> q, from |-> f] /\ d.text = q /\ d.from = f
  <2>1. c \in [text : Seq(Int), from : Int] /\ z \in 1 .. MaxSize + n
    BY DEF Sound, PieceSet, PieceLists
  <2>2. s \in Seq(Int) /\ f \in Int
    BY <2>1
  <2>3. x \in Nat /\ z \in Nat
    BY <2>2, SeqDomain
  <2>4. z >= 1
    BY <2>1, <2>3, SizeIsNumber
  <2>5. d = [text |-> q, from |-> f]
    <3>1. c = [text |-> s, from |-> f] /\ d = [c EXCEPT !.text = q]
      BY <2>1
    <3> HIDE DEF q, s, f, d
    <3>2. QED
      BY <3>1
  <2>6. QED
    BY <2>1, <2>2, <2>3, <2>4, <2>5 DEF PieceSet
<1>2. /\ q \in Seq(Int) /\ Len(q) = x + z
      /\ \A k \in 1 .. x + z : q[k] = IF k <= x THEN r[k] ELSE s[k - x]
  BY <1>1, ConcatProperties
<1>3. PICK m \in 0 .. z - 1 :
          /\ \A k \in 1 .. m : s[k] < f
          /\ \A k \in m + 1 .. z : s[k] = f + k - m - 1
  BY DEF Sound
<1>4. \A k \in 1 .. x : r[k] < f
  OBVIOUS
<1>5. Last(s) = s[z] /\ Last(q) = q[x + z]
  BY <1>2 DEF Last
<1> HIDE DEF q, s, x, z, f, d
<1>6. x + z \in 1 .. x + z /\ ~(x + z <= x) /\ (x + z) - x = z
  BY <1>1
<1>7. Last(q) = Last(s)
  BY <1>2, <1>5, <1>6
<1>8. m + x \in 0 .. (x + z) - 1
  BY <1>1, <1>3
<1>9. \A k \in 1 .. m + x : q[k] < f
  <2> SUFFICES ASSUME NEW k \in 1 .. m + x PROVE q[k] < f
    OBVIOUS
  <2>1. k \in 1 .. x + z /\ (k <= x => k \in 1 .. x) /\ (~(k <= x) => k - x \in 1 .. m)
    BY <1>1, <1>3
  <2>2. QED
    BY <1>2, <1>3, <1>4, <2>1
<1>10. \A k \in (m + x) + 1 .. x + z : q[k] = f + k - (m + x) - 1
  <2> SUFFICES ASSUME NEW k \in (m + x) + 1 .. x + z PROVE q[k] = f + k - (m + x) - 1
    OBVIOUS
  <2>1. k \in 1 .. x + z /\ ~(k <= x) /\ k - x \in m + 1 .. z
    BY <1>1, <1>3
  <2>2. q[k] = f + (k - x) - m - 1
    BY <1>2, <1>3, <2>1
  <2>3. QED
    BY <1>1, <1>3, <2>2
<1>11. x + z \in 1 .. MaxSize + n
  BY <1>1, SizeIsNumber
<1>12. d \in PieceSet
  BY <1>1, <1>2 DEF PieceSet
<1>13. Sound(n, d)
  BY <1>1, <1>2, <1>8, <1>9, <1>10, <1>11, <1>12 DEF Sound
<1>14. QED
  BY <1>1, <1>7, <1>13 DEF d, q, s, f

\* The overlaps take no word away and reach back into what was read before.
LEMMA OverlappedCovers ==
    ASSUME overlap \in Nat, NEW t, NEW a \in Int, NEW b \in Int, NEW s, Covers(t, overlap, s, a, b)
    PROVE  Covers(t, overlap, Overlapped(s), a, b)
<1> DEFINE q == Overlapped(s)
           z == Len(s)
<1>1. s \in Seq(PieceSet) /\ z \in Nat /\ DOMAIN s = 1 .. z
  BY SeqDomain DEF Covers, PieceLists
<1>2. \A i \in 1 .. z : Sound(overlap, s[i]) /\ a <= s[i].from /\ Last(s[i].text) < b
  BY <1>1 DEF Covers
<1>3. \A i \in 1 .. z : Sound(overlap, q[i]) /\ q[i].from = s[i].from
                        /\ Last(q[i].text) = Last(s[i].text)
  <2> SUFFICES ASSUME NEW i \in 1 .. z
               PROVE  Sound(overlap, q[i]) /\ q[i].from = s[i].from
                      /\ Last(q[i].text) = Last(s[i].text)
    OBVIOUS
  <2> DEFINE tail == TailOf(s[i - 1].text, overlap)
  <2>1. q[i] = IF \/ i = 1 \/ overlap = 0 \/ StartsLike(s[i].text, tail)
                  \/ Len(tail) + Len(s[i].text) > MaxSize + overlap
               THEN s[i] ELSE [s[i] EXCEPT !.text = tail \o @]
    BY <1>1 DEF Overlapped
  <2>2. CASE q[i] = s[i]
    BY <1>2, <2>2
  <2>3. CASE q[i] # s[i]
    <3>1. i # 1 /\ ~(Len(tail) + Len(s[i].text) > MaxSize + overlap)
          /\ q[i] = [s[i] EXCEPT !.text = tail \o @]
      BY <2>1, <2>3
    <3>2. i - 1 \in 1 .. z /\ i - 1 < i
      BY <1>1, <3>1
    <3> DEFINE r == s[i - 1].text
    <3>3. /\ r \in Seq(Int) /\ Last(r) \in Int
          /\ \A k \in 1 .. Len(r) : r[k] \in Int /\ r[k] <= Last(r)
      BY <1>2, <3>2, SoundPiece
    <3>4. Last(r) < s[i].from
      BY <1>1, <3>2 DEF Covers
    <3>5. s[i].from \in Int /\ Len(s[i].text) \in Nat
      BY <1>2, SoundPiece, SizeIsNumber
    <3> HIDE DEF r
    <3>6. /\ tail \in Seq(Int) /\ Len(tail) \in 0 .. Len(r)
          /\ \A k \in 1 .. Len(tail) : /\ Len(r) - Len(tail) + k \in 1 .. Len(r)
                                       /\ tail[k] = r[Len(r) - Len(tail) + k]
      BY <3>3, TailOfText DEF r
    <3> HIDE DEF tail
    <3>7. \A k \in 1 .. Len(tail) : tail[k] < s[i].from
      <4> SUFFICES ASSUME NEW k \in 1 .. Len(tail) PROVE tail[k] < s[i].from
        OBVIOUS
      <4> DEFINE j == Len(r) - Len(tail) + k
      <4>1. r[j] \in Int /\ r[j] <= Last(r) /\ tail[k] = r[j]
        BY <3>3, <3>6
      <4> HIDE DEF j
      <4>2. Last(r) \in Int /\ Last(r) < s[i].from /\ s[i].from \in Int
        BY <3>3, <3>4, <3>5
      <4> DEFINE x == r[j]
                 y == Last(r)
                 f == s[i].from
      <4>3. x \in Int /\ y \in Int /\ f \in Int /\ x <= y /\ y < f /\ tail[k] = x
        BY <4>1, <4>2
      <4> HIDE DEF x, y, f
      <4>4. x < f
        BY <4>3
      <4>5. tail[k] < f
        BY <4>3, <4>4
      <4>6. QED
        BY <4>5 DEF f
    <3>8. Len(tail) + Len(s[i].text) <= MaxSize + overlap
      <4>1. Len(tail) \in Nat
        BY <3>6, SeqDomain
      <4>2. QED
        BY <3>1, <3>5, <4>1, SizeIsNumber
    <3>9. Sound(overlap, s[i])
      BY <1>2
    <3>10. tail \in Seq(Int)
      BY <3>6
    <3>11. LET d == [s[i] EXCEPT !.text = tail \o @]
           IN  Sound(overlap, d) /\ d.from = s[i].from /\ Last(d.text) = Last(s[i].text)
      BY <3>7, <3>8, <3>9, <3>10, TailInFront
    <3>12. QED
      BY <3>1, <3>11
  <2>4. QED
    BY <2>2, <2>3
<1>4. q \in PieceLists /\ DOMAIN q = 1 .. z
  <2>1. \A i \in 1 .. z : q[i] \in PieceSet
    BY <1>3 DEF Sound
  <2>2. q = [i \in 1 .. z |-> q[i]]
    BY <1>1 DEF Overlapped
  <2> HIDE DEF q, z
  <2>3. q \in [1 .. z -> PieceSet]
    BY <2>1, <2>2
  <2>4. q \in Seq(PieceSet)
    BY <1>1, <2>3
  <2>5. QED
    BY <2>2, <2>4 DEF PieceLists
<1> HIDE DEF q, z
<1>5. \A i \in 1 .. z : Own(q[i]) = Own(s[i])
  BY <1>3 DEF Own
<1>6. QED
  <2>1. Covers(t, overlap, q, a, b)
    BY <1>1, <1>2, <1>3, <1>4, <1>5 DEF Covers
  <2>2. QED
    BY <2>1 DEF q

\* The buffer becomes the piece that goes on where the ones before it end.
LEMMA FlushedCovers ==
    ASSUME NEW t, NEW n \in Nat, NEW call \in CallSet, NEW a \in Int, a <= call.packed,
           call.packed <= call.at, call.at - call.packed <= MaxSize,
           Covers(t, n, call.done, a, call.packed)
    PROVE  LET c == Flushed(call)
           IN  /\ c \in CallSet /\ c.packed = call.at /\ c.at = call.at /\ c.to = call.to
               /\ Covers(t, n, c.done, a, call.at)
<1>1. /\ call.done \in Seq(PieceSet) /\ call.packed \in Int /\ call.at \in Int /\ call.to \in Int
      /\ call = [done |-> call.done, packed |-> call.packed, at |-> call.at, to |-> call.to]
  BY DEF CallSet, PieceLists
<1>2. CASE call.packed < call.at
  <2> DEFINE x == call.packed
             y == call.at - 1
             c == Piece(x, y)
             s == Append(call.done, c)
             d == Flushed(call)
  <2>1. x \in Int /\ y \in Int /\ x <= y /\ y - x + 1 <= MaxSize /\ y + 1 = call.at
    BY <1>1, <1>2, SizeIsNumber
  <2>2. d = [call EXCEPT !.done = s, !.packed = call.at]
    BY <1>2 DEF Flushed
  <2> HIDE DEF y
  <2>3. c \in PieceSet /\ Covers(t, n, <<c>>, x, y + 1)
    BY <2>1, NewPiece, CoversPiece
  <2> HIDE DEF c
  <2>4. s = call.done \o <<c>>
    BY <1>1, <2>3, AppendIsConcat
  <2>5. Covers(t, n, s, a, y + 1)
    BY <1>1, <2>1, <2>3, <2>4, CoversBoth
  <2> HIDE DEF s, d, x
  <2>6. d = [done |-> s, packed |-> call.at, at |-> call.at, to |-> call.to]
    BY <1>1, <2>2
  <2>7. s \in PieceLists
    BY <2>5 DEF Covers
  <2>8. d \in CallSet
    BY <1>1, <2>6, <2>7 DEF CallSet
  <2>9. QED
    BY <2>1, <2>5, <2>6, <2>8 DEF d
<1>3. CASE ~(call.packed < call.at)
  <2>1. call.packed = call.at
    BY <1>1, <1>3
  <2>2. Flushed(call) = call
    BY <1>3 DEF Flushed
  <2>3. QED
    BY <2>1, <2>2
<1>4. QED
  BY <1>2, <1>3

LEMMA LeastExists ==
    ASSUME NEW S \in SUBSET Int, NEW a \in Int, \A i \in S : a <= i, S # {}
    PROVE  \E i \in S : \A j \in S : i <= j
<1> DEFINE R == {i - a : i \in S}
<1>1. R # {} /\ R \subseteq Nat
  <2>1. \A i \in S : i - a \in Nat
    OBVIOUS
  <2>2. PICK i \in S : TRUE
    OBVIOUS
  <2>3. i - a \in R
    BY <2>2
  <2>4. QED
    BY <2>1, <2>3
<1>2. IsWellFoundedOn(OpToRel(<, Nat), Nat)
  BY NatLessThanWellFounded
<1>3. PICK x \in R : \A y \in R : ~(<<y, x>> \in OpToRel(<, Nat))
  BY <1>1, <1>2, WFMin
<1>4. \A y \in R : ~(y < x)
  BY <1>1, <1>3 DEF OpToRel
<1>5. PICK i \in S : x = i - a
  BY <1>3
<1>6. \A j \in S : ~(j - a < i - a)
  BY <1>4, <1>5
<1>7. \A j \in S : i <= j
  BY <1>6
<1>8. QED
  BY <1>7

\* A part is not empty and ends inside the text, and where no separator is
\* left it is one character.
LEMMA PartIsInside ==
    ASSUME frames \in Seq(CallSet), frames # <<>>, Depth <= 5, Reading
    PROVE  /\ Current \in CallSet /\ Depth \in 1 .. 5
           /\ PartEnd \in Int /\ Current.at <= PartEnd /\ PartEnd <= Current.to
           /\ Depth = 5 => PartEnd = Current.at
<1> DEFINE x == Current.at
           y == Current.to
           sep == Separators[Depth]
           ends == {i \in x .. y : /\ Len(sep) <= i - x + 1
                                   /\ \A k \in DOMAIN sep : passage[i - Len(sep) + k] = sep[k]}
<1>1. Depth \in 1 .. 5 /\ Current \in CallSet
  <2>1. Depth \in Nat /\ Depth # 0 /\ DOMAIN frames = 1 .. Depth
    BY SeqDomain DEF Depth
  <2>2. Depth \in 1 .. 5 /\ Depth \in 1 .. Depth
    BY <2>1
  <2>3. QED
    BY <2>1, <2>2, SeqDomain DEF Current
<1>2. x \in Int /\ y \in Int /\ x <= y
  BY <1>1 DEF CallSet, Reading
<1>3. PartEnd = IF ends = {} THEN y ELSE CHOOSE i \in ends : \A j \in ends : i <= j
  BY DEF PartEnd
<1>4. \A i \in ends : i \in Int /\ x <= i /\ i <= y
  BY <1>2
<1>5. CASE ends = {}
  <2>1. PartEnd = y
    BY <1>3, <1>5
  <2>2. Depth # 5
    <3> SUFFICES ASSUME Depth = 5 PROVE FALSE
      OBVIOUS
    <3>1. sep = <<>>
      BY DEF Separators
    <3>2. Len(sep) = 0 /\ DOMAIN sep = {}
      BY <3>1
    <3> HIDE DEF sep
    <3>3. x \in x .. y /\ 0 <= x - x + 1
      BY <1>2
    <3>4. x \in ends
      BY <3>2, <3>3
    <3>5. QED
      BY <1>5, <3>4
  <2>3. QED
    BY <1>1, <1>2, <2>1, <2>2
<1>6. CASE ends # {}
  <2> HIDE DEF ends
  <2>1. \E i \in ends : \A j \in ends : i <= j
    <3>1. ends \in SUBSET Int /\ \A i \in ends : x <= i
      BY <1>4
    <3> HIDE DEF x
    <3>2. QED
      BY <1>2, <1>6, <3>1, LeastExists
  <2>2. PartEnd \in ends /\ \A j \in ends : PartEnd <= j
    BY <1>3, <1>6, <2>1
  <2>3. PartEnd \in Int /\ x <= PartEnd /\ PartEnd <= y
    BY <1>4, <2>2
  <2>4. Depth = 5 => PartEnd = x
    <3> SUFFICES ASSUME Depth = 5 PROVE PartEnd = x
      OBVIOUS
    <3>1. sep = <<>>
      BY DEF Separators
    <3>2. Len(sep) = 0 /\ DOMAIN sep = {}
      BY <3>1
    <3>3. x \in x .. y /\ 0 <= x - x + 1
      BY <1>2
    <3>4. x \in ends
      BY <3>2, <3>3 DEF ends
    <3>5. PartEnd <= x
      BY <2>2, <3>4
    <3>6. QED
      BY <1>2, <2>3, <3>5
  <2>5. QED
    BY <1>1, <2>3, <2>4
<1>7. QED
  BY <1>5, <1>6

-----------------------------------------------------------------------------
\* What the frames look like from outside.
LEMMA TopCall ==
    ASSUME NEW t, NEW n \in Nat, NEW fs, Nested(t, n, fs), fs # <<>>
    PROVE  LET d == Len(fs)
               c == fs[d]
           IN  /\ d \in Nat /\ d >= 1 /\ d \in 1 .. d /\ c \in CallSet /\ Start(fs, d) \in Int
               /\ c.packed \in Int /\ c.at \in Int /\ c.to \in Int
               /\ Start(fs, d) <= c.packed /\ c.packed <= c.at /\ c.at <= c.to + 1
               /\ Covers(t, n, c.done, Start(fs, d), c.packed)
<1>1. fs \in Seq(CallSet)
  BY DEF Nested
<1>2. Len(fs) \in Nat /\ Len(fs) >= 1 /\ \A k \in 1 .. Len(fs) : fs[k] \in CallSet
  BY <1>1, SeqDomain
<1>3. \A k \in 1 .. Len(fs) : fs[k].packed \in Int /\ fs[k].at \in Int /\ fs[k].to \in Int
  BY <1>2 DEF CallSet
<1>4. \A k \in 1 .. Len(fs) : k # 1 => k - 1 \in 1 .. Len(fs)
  BY <1>2
<1>5. \A k \in 1 .. Len(fs) : Start(fs, k) \in Int
  BY <1>3, <1>4 DEF Start
<1>6. Len(fs) \in 1 .. Len(fs)
  BY <1>2
<1>7. QED
  BY <1>2, <1>3, <1>5, <1>6 DEF Nested

\* The innermost call of fs, the d-th, can go on as c.
Continues(fs, d, c) ==
    /\ Nested(passage, overlap, fs) /\ fs # <<>> /\ d = Len(fs)
    /\ c \in CallSet
    /\ Start(fs, d) <= c.packed /\ c.packed <= c.at /\ c.at <= c.to + 1
    /\ Covers(passage, overlap, c.done, Start(fs, d), c.packed)
    /\ c.to = fs[d].to

LEMMA TopReplaced ==
    ASSUME overlap \in Nat, NEW fs, NEW d, NEW c, Continues(fs, d, c)
    PROVE  /\ Nested(passage, overlap, [fs EXCEPT ![d] = c])
           /\ Len([fs EXCEPT ![d] = c]) = d
           /\ [fs EXCEPT ![d] = c][d] = c
<1> DEFINE r == [fs EXCEPT ![d] = c]
<1> USE DEF Continues
<1>1. fs \in Seq(CallSet) /\ d \in Nat /\ d \in 1 .. d
  BY TopCall DEF Nested
<1>2. r \in Seq(CallSet) /\ Len(r) = d /\ \A k \in 1 .. d : r[k] = IF k = d THEN c ELSE fs[k]
  BY <1>1, ExceptSeq
<1> HIDE DEF r
<1>3. \A k \in 1 .. d : k # 1 => k - 1 \in 1 .. d /\ k - 1 # d
  BY <1>1
<1>4. \A k \in 1 .. d : Start(r, k) = Start(fs, k)
  BY <1>2, <1>3 DEF Start
<1>5. \A k \in 1 .. d :
          /\ Start(r, k) <= r[k].packed
          /\ r[k].packed <= r[k].at
          /\ r[k].at <= r[k].to + 1
          /\ Covers(passage, overlap, r[k].done, Start(r, k), r[k].packed)
          /\ r[k].to = IF k = 1 THEN Len(passage) ELSE r[k - 1].at - 1
  <2> SUFFICES ASSUME NEW k \in 1 .. d
               PROVE  /\ Start(r, k) <= r[k].packed
                      /\ r[k].packed <= r[k].at
                      /\ r[k].at <= r[k].to + 1
                      /\ Covers(passage, overlap, r[k].done, Start(r, k), r[k].packed)
                      /\ r[k].to = IF k = 1 THEN Len(passage) ELSE r[k - 1].at - 1
    OBVIOUS
  <2>1. fs[k].to = IF k = 1 THEN Len(passage) ELSE fs[k - 1].at - 1
    BY DEF Nested
  <2>2. k # 1 => r[k - 1] = fs[k - 1]
    BY <1>2, <1>3
  <2>3. r[k].to = fs[k].to
    BY <1>2
  <2>4. r[k].to = IF k = 1 THEN Len(passage) ELSE r[k - 1].at - 1
    BY <2>1, <2>2, <2>3
  <2>5. CASE k = d
    BY <1>1, <1>2, <1>4, <2>4, <2>5
  <2>6. CASE k # d
    <3>1. r[k] = fs[k] /\ Start(r, k) = Start(fs, k)
      BY <1>2, <1>4, <2>6
    <3>2. QED
      BY <2>4, <3>1 DEF Nested
  <2>7. QED
    BY <2>5, <2>6
<1>6. Nested(passage, overlap, r)
  BY <1>2, <1>5 DEF Nested
<1>7. r[d] = c
  BY <1>1, <1>2
<1>8. QED
  BY <1>2, <1>6, <1>7 DEF r

\* A call waits for one that splits what lies between its two marks.
LEMMA CallAdded ==
    ASSUME NEW t, NEW n \in Nat, NEW fs, Nested(t, n, fs), fs # <<>>, NEW a \in Int, NEW b \in Int,
           a <= b, fs[Len(fs)].packed = a, fs[Len(fs)].at = b + 1
    PROVE  LET r == Append(fs, Call(a, b))
           IN  Nested(t, n, r) /\ Len(r) = Len(fs) + 1 /\ r[Len(fs) + 1] = Call(a, b)
<1> DEFINE d == Len(fs)
           c == Call(a, b)
           r == Append(fs, c)
<1>1. fs \in Seq(CallSet) /\ d \in Nat /\ d >= 1
  BY TopCall DEF Nested
<1>2. /\ c \in CallSet /\ c.packed = a /\ c.at = a /\ c.to = b /\ c.done = <<>>
      /\ Covers(t, n, <<>>, a, a)
  <2>1. <<>> \in PieceLists
    BY DEF PieceLists
  <2>2. \A p \in a .. a - 1 : Blank(t[p])
    OBVIOUS
  <2>3. Covers(t, n, <<>>, a, a)
    BY <2>2, CoversBlank
  <2>4. QED
    BY <2>1, <2>3 DEF Call, CallSet
<1> HIDE DEF c
<1>3. /\ r \in Seq(CallSet) /\ Len(r) = d + 1 /\ r[d + 1] = c
      /\ \A k \in 1 .. d : r[k] = fs[k]
  BY <1>1, <1>2, AppendProperties
<1> HIDE DEF r
<1>4. /\ \A k \in 1 .. d + 1 : k \in 1 .. d \/ k = d + 1
      /\ \A k \in 1 .. d : k # 1 => k - 1 \in 1 .. d
      /\ (d + 1) - 1 = d /\ d + 1 # 1 /\ d \in 1 .. d
  BY <1>1
<1>5. \A k \in 1 .. d : Start(r, k) = Start(fs, k)
  BY <1>3, <1>4 DEF Start
<1>6. Start(r, d + 1) = a
  BY <1>3, <1>4 DEF Start
<1>7. \A k \in 1 .. d + 1 :
          /\ Start(r, k) <= r[k].packed
          /\ r[k].packed <= r[k].at
          /\ r[k].at <= r[k].to + 1
          /\ Covers(t, n, r[k].done, Start(r, k), r[k].packed)
          /\ r[k].to = IF k = 1 THEN Len(t) ELSE r[k - 1].at - 1
  <2> SUFFICES ASSUME NEW k \in 1 .. d + 1
               PROVE  /\ Start(r, k) <= r[k].packed
                      /\ r[k].packed <= r[k].at
                      /\ r[k].at <= r[k].to + 1
                      /\ Covers(t, n, r[k].done, Start(r, k), r[k].packed)
                      /\ r[k].to = IF k = 1 THEN Len(t) ELSE r[k - 1].at - 1
    OBVIOUS
  <2>1. CASE k \in 1 .. d
    <3>1. r[k] = fs[k] /\ Start(r, k) = Start(fs, k) /\ (k # 1 => r[k - 1] = fs[k - 1])
      BY <1>3, <1>4, <1>5, <2>1
    <3>2. /\ Start(fs, k) <= fs[k].packed /\ fs[k].packed <= fs[k].at /\ fs[k].at <= fs[k].to + 1
          /\ Covers(t, n, fs[k].done, Start(fs, k), fs[k].packed)
          /\ fs[k].to = IF k = 1 THEN Len(t) ELSE fs[k - 1].at - 1
      BY <2>1 DEF Nested
    <3>3. QED
      BY <3>1, <3>2
  <2>2. CASE k = d + 1
    <3>1. r[k] = c /\ Start(r, k) = a /\ k # 1 /\ r[k - 1].at - 1 = b
      <4>1. r[k - 1] = fs[d]
        BY <1>3, <1>4, <2>2
      <4>2. QED
        BY <1>3, <1>4, <1>6, <2>2, <4>1
    <3>2. QED
      BY <1>2, <3>1
  <2>3. QED
    BY <1>4, <2>1, <2>2
<1>8. Nested(t, n, r)
  BY <1>3, <1>7 DEF Nested
<1>9. QED
  BY <1>3, <1>8 DEF r, c, d

\* The caller of the innermost call.
LEMMA CallerLeft ==
    ASSUME NEW t, NEW n \in Nat, NEW fs, Nested(t, n, fs), Len(fs) > 1
    PROVE  LET r == Front(fs)
           IN  /\ Nested(t, n, r) /\ Len(r) = Len(fs) - 1 /\ r # <<>>
               /\ r[Len(fs) - 1] = fs[Len(fs) - 1]
<1> DEFINE d == Len(fs)
           r == Front(fs)
<1>1. fs \in Seq(CallSet) /\ d \in Nat
  BY SeqDomain DEF Nested
<1>2. /\ r \in Seq(CallSet) /\ Len(r) = d - 1 /\ \A k \in 1 .. d - 1 : r[k] = fs[k]
  <2>1. \A k \in 1 .. d - 1 : fs[k] \in CallSet
    BY <1>1, SeqDomain
  <2>2. /\ r \in Seq(CallSet) /\ Len(r) = (IF 1 <= d - 1 THEN (d - 1) - 1 + 1 ELSE 0)
        /\ \A k \in 1 .. (d - 1) - 1 + 1 : r[k] = fs[1 + k - 1]
    BY <1>1, <2>1, SubSeqProperties DEF Front
  <2>3. /\ \A k \in 1 .. d - 1 : k \in 1 .. (d - 1) - 1 + 1 /\ 1 + k - 1 = k
        /\ (IF 1 <= d - 1 THEN (d - 1) - 1 + 1 ELSE 0) = d - 1
    BY <1>1
  <2> HIDE DEF r, d
  <2>4. QED
    BY <2>2, <2>3
<1>3. r # <<>> /\ d - 1 \in 1 .. d - 1
  BY <1>1, <1>2
<1> HIDE DEF r
<1>4. /\ \A k \in 1 .. d - 1 : k \in 1 .. d /\ (k # 1 => k - 1 \in 1 .. d - 1)
  BY <1>1
<1>5. \A k \in 1 .. d - 1 : Start(r, k) = Start(fs, k) /\ (k # 1 => r[k - 1] = fs[k - 1])
  BY <1>2, <1>4 DEF Start
<1>6. \A k \in 1 .. d - 1 :
          /\ Start(r, k) <= r[k].packed
          /\ r[k].packed <= r[k].at
          /\ r[k].at <= r[k].to + 1
          /\ Covers(t, n, r[k].done, Start(r, k), r[k].packed)
          /\ r[k].to = IF k = 1 THEN Len(t) ELSE r[k - 1].at - 1
  <2> SUFFICES ASSUME NEW k \in 1 .. d - 1
               PROVE  /\ Start(r, k) <= r[k].packed
                      /\ r[k].packed <= r[k].at
                      /\ r[k].at <= r[k].to + 1
                      /\ Covers(t, n, r[k].done, Start(r, k), r[k].packed)
                      /\ r[k].to = IF k = 1 THEN Len(t) ELSE r[k - 1].at - 1
    OBVIOUS
  <2>1. /\ Start(fs, k) <= fs[k].packed /\ fs[k].packed <= fs[k].at /\ fs[k].at <= fs[k].to + 1
        /\ Covers(t, n, fs[k].done, Start(fs, k), fs[k].packed)
        /\ fs[k].to = IF k = 1 THEN Len(t) ELSE fs[k - 1].at - 1
    BY <1>4 DEF Nested
  <2>2. r[k] = fs[k] /\ Start(r, k) = Start(fs, k) /\ (k # 1 => r[k - 1] = fs[k - 1])
    BY <1>2, <1>5
  <2>3. QED
    BY <2>1, <2>2
<1>7. Nested(t, n, r)
  BY <1>2, <1>6 DEF Nested
<1>8. QED
  BY <1>2, <1>3, <1>7 DEF r, d

-----------------------------------------------------------------------------
LEMMA SplitStarts == ChunkInit => SplitInv
<1> SUFFICES ASSUME ChunkInit PROVE SplitInv
  OBVIOUS
<1>1. passage = <<>> /\ overlap = 0 /\ frames = <<>> /\ pieces = <<>> /\ chunks = <<>>
  BY DEF ChunkInit
<1>2. Len(<<>>) = 0
  OBVIOUS
<1>3. passage \in Seq(Characters) /\ overlap \in Nat /\ frames \in Seq(CallSet)
  BY <1>1
<1>4. Nested(passage, overlap, frames) /\ Depth <= 5
  BY <1>1, <1>2, <1>3 DEF Nested, Depth
<1>5. 1 \in 1 .. Len(passage) + 1 /\ Len(passage) + 1 = 1
  BY <1>1, <1>2
<1>6. \A p \in 1 .. 1 - 1 : Blank(passage[p])
  OBVIOUS
<1>7. Covers(passage, overlap, <<>>, 1, 1)
  BY <1>3, <1>6, CoversBlank
<1>8. QED
  BY <1>1, <1>3, <1>4, <1>5, <1>7 DEF SplitInv

\* A turn of a loop that leaves the calls nested.
LEMMA StillSplitting ==
    ASSUME SplitInv, frames # <<>>, UNCHANGED <<passage, overlap, pieces, chunks>>,
           Nested(passage, overlap, frames'), frames' # <<>>, Len(frames') <= 5,
           frames'[Len(frames')].at - frames'[Len(frames')].packed <= MaxSize
    PROVE  SplitInv'
<1>1. pieces = <<>> /\ chunks = <<>> /\ passage # <<>>
      /\ passage \in Seq(Characters) /\ overlap \in Nat
  BY DEF SplitInv
<1>2. passage' = passage /\ overlap' = overlap /\ pieces' = <<>> /\ chunks' = <<>>
  BY <1>1
<1>3. Depth' <= 5 /\ BufLen' <= MaxSize /\ frames' # <<>>
  BY DEF Depth, BufLen, Current
<1>4. Nested(passage, overlap, frames)'
  BY <1>2
<1>5. QED
  BY <1>1, <1>2, <1>3, <1>4 DEF SplitInv

\* The loop of the innermost call in a state where it runs.
LEMMA InTheLoop ==
    ASSUME SplitInv, frames # <<>>
    PROVE  /\ overlap \in Nat /\ MaxSize \in Nat
           /\ Nested(passage, overlap, frames) /\ Depth = Len(frames)
           /\ Depth \in Nat /\ Depth >= 1 /\ Depth <= 5
           /\ Current \in CallSet /\ Current = frames[Depth] /\ Start(frames, Depth) \in Int
           /\ Current.packed \in Int /\ Current.at \in Int /\ Current.to \in Int
           /\ Start(frames, Depth) <= Current.packed /\ Current.packed <= Current.at
           /\ Current.at <= Current.to + 1 /\ Current.at - Current.packed <= MaxSize
           /\ Covers(passage, overlap, Current.done, Start(frames, Depth), Current.packed)
<1>1. overlap \in Nat /\ Nested(passage, overlap, frames) /\ Depth <= 5 /\ BufLen <= MaxSize
  BY DEF SplitInv
<1>2. Depth = Len(frames) /\ Current = frames[Depth] /\ MaxSize \in Nat
  BY SizeIsNumber DEF Depth, Current
<1>3. Current.at - Current.packed <= MaxSize
  BY <1>1 DEF BufLen
<1>4. LET d == Len(frames)
          c == frames[d]
      IN  /\ d \in Nat /\ d >= 1 /\ d \in 1 .. d /\ c \in CallSet /\ Start(frames, d) \in Int
          /\ c.packed \in Int /\ c.at \in Int /\ c.to \in Int
          /\ Start(frames, d) <= c.packed /\ c.packed <= c.at /\ c.at <= c.to + 1
          /\ Covers(passage, overlap, c.done, Start(frames, d), c.packed)
  BY <1>1, TopCall
<1>5. Depth \in Nat /\ Depth >= 1 /\ Depth <= 5
  BY <1>1, <1>2, <1>4
<1>6. QED
  BY <1>1, <1>2, <1>3, <1>4, <1>5

LEMMA PlacesInTheLoop ==
    ASSUME SplitInv, frames # <<>>
    PROVE  /\ MaxSize \in Nat /\ Start(frames, Depth) \in Int
           /\ Current.packed \in Int /\ Current.at \in Int /\ Current.to \in Int
           /\ Start(frames, Depth) <= Current.packed /\ Current.packed <= Current.at
           /\ Current.at <= Current.to + 1 /\ Current.at - Current.packed <= MaxSize
BY InTheLoop

\* The innermost call goes on.
LEMMA CurrentReplaced ==
    ASSUME SplitInv, frames # <<>>, UNCHANGED <<passage, overlap, pieces, chunks>>,
           NEW c, Continues(frames, Depth, c), c.at - c.packed <= MaxSize,
           frames' = [frames EXCEPT ![Depth] = c]
    PROVE  SplitInv'
<1>1. Nested(passage, overlap, frames') /\ Len(frames') = Depth /\ frames'[Depth] = c
  <2>1. overlap \in Nat
    BY InTheLoop
  <2>2. QED
    BY <2>1, TopReplaced
<1>2. Depth >= 1 /\ Depth <= 5
  BY InTheLoop
<1>3. Len(frames') <= 5 /\ frames' # <<>>
  BY <1>1, <1>2
<1>4. frames'[Len(frames')].at - frames'[Len(frames')].packed <= MaxSize
  BY <1>1
<1>5. QED
  BY <1>1, <1>3, <1>4, StillSplitting

LEMMA ExtendBufferSplits == ASSUME SplitInv, ExtendBuffer PROVE SplitInv'
<1>1. /\ Reading /\ frames # <<>> /\ UNCHANGED <<passage, overlap, pieces, chunks>>
      /\ BufLen + PartLen <= MaxSize
      /\ frames' = [frames EXCEPT ![Depth] = [Current EXCEPT !.at = PartEnd + 1]]
  BY DEF ExtendBuffer, Reading, Replaced
<1>2. PartEnd \in Int /\ Current.at <= PartEnd /\ PartEnd <= Current.to
  BY <1>1, PartIsInside DEF SplitInv, Nested
<1> DEFINE c == [Current EXCEPT !.at = PartEnd + 1]
<1>3. c \in CallSet /\ c.done = Current.done /\ c.packed = Current.packed
      /\ c.at = PartEnd + 1 /\ c.to = Current.to
  <2>1. Current \in [done : PieceLists, packed : Int, at : Int, to : Int] /\ PartEnd + 1 \in Int
    BY <1>1, <1>2, InTheLoop DEF CallSet
  <2>2. QED
    BY <2>1 DEF CallSet
<1> HIDE DEF c
<1>4. c.at - c.packed <= MaxSize /\ c.packed <= c.at /\ c.at <= c.to + 1
  <2>1. (Current.at - Current.packed) + (PartEnd - Current.at + 1) <= MaxSize
    BY <1>1 DEF BufLen, PartLen
  <2>2. /\ (PartEnd + 1) - Current.packed <= MaxSize /\ Current.packed <= PartEnd + 1
        /\ PartEnd + 1 <= Current.to + 1
    <3>1. Current.packed \in Int /\ Current.at \in Int /\ Current.to \in Int
          /\ MaxSize \in Nat /\ Current.packed <= Current.at
      BY <1>1, PlacesInTheLoop
    <3>2. QED
      BY <1>2, <2>1, <3>1
  <2>3. QED
    BY <1>3, <2>2
<1>5. frames' = [frames EXCEPT ![Depth] = c]
  BY <1>1 DEF c
<1>6. Continues(frames, Depth, c)
  BY <1>1, <1>3, <1>4, InTheLoop DEF Continues
<1>7. QED
  BY <1>1, <1>4, <1>5, <1>6, CurrentReplaced

\* The call with its buffer flushed.
LEMMA FlushedCall ==
    ASSUME SplitInv, frames # <<>>
    PROVE  LET f == Flushed(Current)
           IN  /\ f \in CallSet /\ f.packed = Current.at /\ f.at = Current.at /\ f.to = Current.to
               /\ Covers(passage, overlap, f.done, Start(frames, Depth), Current.at)
BY InTheLoop, FlushedCovers

LEMMA FlushBufferSplits == ASSUME SplitInv, FlushBuffer PROVE SplitInv'
<1> DEFINE f == Flushed(Current)
           c == [f EXCEPT !.at = PartEnd + 1]
<1>1. /\ Reading /\ frames # <<>> /\ UNCHANGED <<passage, overlap, pieces, chunks>>
      /\ PartLen <= MaxSize
      /\ frames' = [frames EXCEPT ![Depth] = c]
  BY DEF FlushBuffer, Reading, Replaced
<1>2. PartEnd \in Int /\ Current.at <= PartEnd /\ PartEnd <= Current.to
  BY <1>1, PartIsInside DEF SplitInv, Nested
<1>3. /\ f \in CallSet /\ f.packed = Current.at /\ f.at = Current.at /\ f.to = Current.to
      /\ Covers(passage, overlap, f.done, Start(frames, Depth), Current.at)
  BY <1>1, FlushedCall
<1> HIDE DEF f
<1>4. c \in CallSet /\ c.done = f.done /\ c.packed = Current.at
      /\ c.at = PartEnd + 1 /\ c.to = Current.to
  BY <1>2, <1>3 DEF CallSet
<1> HIDE DEF c
<1>5. Start(frames, Depth) <= c.packed /\ c.packed <= c.at /\ c.at <= c.to + 1
      /\ c.at - c.packed <= MaxSize
  <2>1. PartEnd - Current.at + 1 <= MaxSize
    BY <1>1 DEF PartLen
  <2>2. /\ Start(frames, Depth) <= Current.at /\ Current.at <= PartEnd + 1
        /\ PartEnd + 1 <= Current.to + 1 /\ (PartEnd + 1) - Current.at <= MaxSize
    <3>1. /\ Start(frames, Depth) \in Int /\ MaxSize \in Nat
          /\ Current.packed \in Int /\ Current.at \in Int /\ Current.to \in Int
          /\ Start(frames, Depth) <= Current.packed /\ Current.packed <= Current.at
      BY <1>1, PlacesInTheLoop
    <3>2. QED
      BY <1>2, <2>1, <3>1
  <2>3. QED
    BY <1>4, <2>2
<1>6. Continues(frames, Depth, c)
  BY <1>1, <1>3, <1>4, <1>5, InTheLoop DEF Continues
<1>7. QED
  BY <1>1, <1>5, <1>6, CurrentReplaced

LEMMA SplitPartSplits == ASSUME SplitInv, SplitPart PROVE SplitInv'
<1> DEFINE f == Flushed(Current)
           w == [f EXCEPT !.at = PartEnd + 1]
           v == [w EXCEPT !.packed = w.at]
           r == [frames EXCEPT ![Depth] = w]
<1>1. /\ Reading /\ frames # <<>> /\ UNCHANGED <<passage, overlap, pieces, chunks>>
      /\ PartLen > MaxSize
      /\ frames' = IF BlankFrom(Current.at, PartEnd)
                   THEN [frames EXCEPT ![Depth] = v]
                   ELSE Append(r, Call(Current.at, PartEnd))
  BY DEF SplitPart, Reading, Replaced
<1>2. /\ PartEnd \in Int /\ Current.at <= PartEnd /\ PartEnd <= Current.to
      /\ Depth = 5 => PartEnd = Current.at
  BY <1>1, PartIsInside DEF SplitInv, Nested
<1>3. /\ f \in CallSet /\ f.packed = Current.at /\ f.at = Current.at /\ f.to = Current.to
      /\ Covers(passage, overlap, f.done, Start(frames, Depth), Current.at)
  BY <1>1, FlushedCall
<1> HIDE DEF f
<1>4. w \in CallSet /\ w.done = f.done /\ w.packed = Current.at
      /\ w.at = PartEnd + 1 /\ w.to = Current.to
  BY <1>2, <1>3 DEF CallSet
<1> HIDE DEF w
<1>5. v \in CallSet /\ v.done = f.done /\ v.packed = PartEnd + 1
      /\ v.at = PartEnd + 1 /\ v.to = Current.to
  BY <1>2, <1>4 DEF CallSet
<1> HIDE DEF v
<1>6. CASE BlankFrom(Current.at, PartEnd)
  <2> DEFINE x == Current.at
             y == PartEnd + 1
  <2>1. \A p \in x .. y - 1 : Blank(passage[p])
    BY <1>2, <1>6 DEF BlankFrom
  <2>2. /\ x \in Int /\ y \in Int /\ x <= y
        /\ Start(frames, Depth) \in Int /\ Start(frames, Depth) <= x
    <3>1. /\ Start(frames, Depth) \in Int /\ MaxSize \in Nat
          /\ Current.packed \in Int /\ Current.at \in Int /\ Current.to \in Int
          /\ Start(frames, Depth) <= Current.packed /\ Current.packed <= Current.at
      BY <1>1, PlacesInTheLoop
    <3>2. QED
      BY <1>2, <3>1
  <2> HIDE DEF x, y
  <2>3. overlap \in Nat /\ Covers(passage, overlap, <<>>, x, y)
    BY <1>1, <2>1, <2>2, InTheLoop, CoversBlank
  <2>4. Covers(passage, overlap, f.done \o <<>>, Start(frames, Depth), y)
    BY <1>3, <2>2, <2>3, CoversBoth DEF x
  <2>5. f.done \in Seq(PieceSet)
    BY <1>3 DEF Covers, PieceLists
  <2>6. Covers(passage, overlap, v.done, Start(frames, Depth), v.packed)
    BY <1>5, <2>4, <2>5, ConcatEmptySeq DEF y
  <2>7. Start(frames, Depth) <= v.packed /\ v.packed <= v.at /\ v.at <= v.to + 1
        /\ v.at - v.packed <= MaxSize
    <3>1. /\ Start(frames, Depth) <= PartEnd + 1 /\ PartEnd + 1 <= Current.to + 1
          /\ (PartEnd + 1) - (PartEnd + 1) <= MaxSize /\ PartEnd + 1 <= PartEnd + 1
      <4>1. /\ Start(frames, Depth) \in Int /\ MaxSize \in Nat
            /\ Current.packed \in Int /\ Current.at \in Int /\ Current.to \in Int
            /\ Start(frames, Depth) <= Current.packed /\ Current.packed <= Current.at
        BY <1>1, PlacesInTheLoop
      <4>2. QED
        BY <1>2, <4>1
    <3>2. QED
      BY <1>5, <3>1
  <2>8. frames' = [frames EXCEPT ![Depth] = v]
    BY <1>1, <1>6
  <2>9. Continues(frames, Depth, v)
    BY <1>1, <1>5, <2>6, <2>7, InTheLoop DEF Continues
  <2>10. QED
    BY <1>1, <2>7, <2>8, <2>9, CurrentReplaced
<1>7. CASE ~BlankFrom(Current.at, PartEnd)
  <2> DEFINE c == Call(Current.at, PartEnd)
  <2>1. Start(frames, Depth) <= w.packed /\ w.packed <= w.at /\ w.at <= w.to + 1
    <3>1. /\ Start(frames, Depth) <= Current.at /\ Current.at <= PartEnd + 1
          /\ PartEnd + 1 <= Current.to + 1
      <4>1. /\ Start(frames, Depth) \in Int /\ MaxSize \in Nat
            /\ Current.packed \in Int /\ Current.at \in Int /\ Current.to \in Int
            /\ Start(frames, Depth) <= Current.packed /\ Current.packed <= Current.at
        BY <1>1, PlacesInTheLoop
      <4>2. QED
        BY <1>2, <4>1
    <3>2. QED
      BY <1>4, <3>1
  <2>2. Nested(passage, overlap, r) /\ Len(r) = Depth /\ r[Depth] = w
    <3>1. overlap \in Nat /\ Continues(frames, Depth, w)
      BY <1>1, <1>3, <1>4, <2>1, InTheLoop DEF Continues
    <3>2. QED
      BY <3>1, TopReplaced
  <2> HIDE DEF r
  <2>3. r # <<>>
    BY <1>1, <2>2, InTheLoop
  <2>4. /\ Nested(passage, overlap, frames') /\ Len(frames') = Depth + 1
        /\ frames'[Depth + 1] = c
    <3>1. overlap \in Nat /\ Current.at \in Int
      BY <1>1, InTheLoop
    <3>2. r[Len(r)].packed = Current.at /\ r[Len(r)].at = PartEnd + 1
      BY <1>4, <2>2
    <3>3. LET q == Append(r, Call(Current.at, PartEnd))
          IN  /\ Nested(passage, overlap, q) /\ Len(q) = Len(r) + 1
              /\ q[Len(r) + 1] = Call(Current.at, PartEnd)
      BY <1>2, <2>2, <2>3, <3>1, <3>2, CallAdded
    <3>4. QED
      BY <1>1, <1>7, <2>2, <3>3
  <2>5. c.at - c.packed = 0
    BY <1>1, InTheLoop DEF Call
  <2> HIDE DEF c
  <2>6. Depth # 5
    BY <1>1, <1>2, InTheLoop, SizeIsNumber DEF PartLen
  <2>7. Len(frames') <= 5 /\ frames' # <<>>
    BY <1>1, <2>4, <2>6, InTheLoop
  <2>8. frames'[Len(frames')].at - frames'[Len(frames')].packed <= MaxSize
    BY <1>1, <2>4, <2>5, InTheLoop
  <2>9. QED
    BY <1>1, <2>4, <2>7, <2>8, StillSplitting
<1>8. QED
  BY <1>6, <1>7

LEMMA ReturnPiecesSplits == ASSUME SplitInv, ReturnPieces PROVE SplitInv'
<1> DEFINE f == Flushed(Current)
           got == Overlapped(f.done)
           caller == frames[Depth - 1]
           r == Front(frames)
           c == [caller EXCEPT !.done = @ \o got, !.packed = caller.at]
<1>1. /\ frames # <<>> /\ UNCHANGED <<passage, overlap, pieces, chunks>>
      /\ Current.at > Current.to /\ Depth > 1
      /\ frames' = [r EXCEPT ![Depth - 1] = c]
  BY DEF ReturnPieces, Read
<1>2. /\ f.packed = Current.at
      /\ Covers(passage, overlap, f.done, Start(frames, Depth), Current.at)
  BY <1>1, FlushedCall
<1> HIDE DEF f
<1>3. Nested(passage, overlap, r) /\ Len(r) = Depth - 1 /\ r # <<>> /\ r[Depth - 1] = caller
  BY <1>1, InTheLoop, CallerLeft
<1>4. /\ caller \in CallSet /\ caller.packed \in Int /\ caller.at \in Int /\ caller.to \in Int
      /\ Start(r, Depth - 1) \in Int /\ Start(r, Depth - 1) <= caller.packed
      /\ caller.packed <= caller.at /\ caller.at <= caller.to + 1
      /\ Covers(passage, overlap, caller.done, Start(r, Depth - 1), caller.packed)
  BY <1>1, <1>3, InTheLoop, TopCall
<1>5. Start(frames, Depth) = caller.packed /\ Current.at = caller.at
  <2>1. Current.to = caller.at - 1
    BY <1>1, InTheLoop DEF Nested
  <2>2. Current.at = caller.at
    <3>1. Current.at \in Int /\ Current.to \in Int /\ Current.at <= Current.to + 1
      BY <1>1, PlacesInTheLoop
    <3>2. caller.at \in Int /\ Current.at > Current.to
      BY <1>1, <1>4
    <3>3. QED
      BY <2>1, <3>1, <3>2
  <2>3. QED
    BY <1>1, <2>2, InTheLoop DEF Start
<1> HIDE DEF r, caller
<1>6. Covers(passage, overlap, got, caller.packed, caller.at)
  BY <1>1, <1>2, <1>4, <1>5, InTheLoop, OverlappedCovers
<1> HIDE DEF got
<1>7. Covers(passage, overlap, caller.done \o got, Start(r, Depth - 1), caller.at)
  BY <1>1, <1>4, <1>6, InTheLoop, CoversBoth
<1>8. caller.done \o got \in PieceLists
  BY <1>7 DEF Covers
<1>9. c \in CallSet /\ c.done = caller.done \o got /\ c.packed = caller.at
      /\ c.at = caller.at /\ c.to = caller.to
  <2> DEFINE s == caller.done \o got
  <2>1. caller \in [done : PieceLists, packed : Int, at : Int, to : Int] /\ s \in PieceLists
    BY <1>4, <1>8 DEF CallSet
  <2>2. c = [caller EXCEPT !.done = s, !.packed = caller.at]
    OBVIOUS
  <2> HIDE DEF s, c
  <2>3. c \in CallSet /\ c.done = s /\ c.packed = caller.at /\ c.at = caller.at /\ c.to = caller.to
    BY <1>4, <2>1, <2>2 DEF CallSet
  <2>4. QED
    BY <2>3 DEF s
<1> HIDE DEF c
<1>10. Start(r, Depth - 1) <= c.packed /\ c.packed <= c.at /\ c.at <= c.to + 1
       /\ c.at - c.packed <= MaxSize
  <2>1. MaxSize \in Nat
    BY SizeIsNumber
  <2>2. /\ Start(r, Depth - 1) <= caller.at /\ caller.at <= caller.at
        /\ caller.at - caller.at <= MaxSize
    BY <1>4, <2>1
  <2>3. QED
    BY <1>4, <1>9, <2>2
<1>11. Nested(passage, overlap, frames') /\ Len(frames') = Depth - 1 /\ frames'[Depth - 1] = c
  <2>1. Covers(passage, overlap, c.done, Start(r, Depth - 1), c.packed) /\ c.to = r[Depth - 1].to
    BY <1>3, <1>7, <1>9
  <2>2. overlap \in Nat /\ Continues(r, Depth - 1, c)
    BY <1>1, <1>3, <1>9, <1>10, <2>1, InTheLoop DEF Continues
  <2>3. /\ Nested(passage, overlap, [r EXCEPT ![Depth - 1] = c])
        /\ Len([r EXCEPT ![Depth - 1] = c]) = Depth - 1
        /\ [r EXCEPT ![Depth - 1] = c][Depth - 1] = c
    BY <2>2, TopReplaced
  <2>4. QED
    BY <1>1, <2>3
<1>12. Len(frames') <= 5 /\ frames' # <<>>
  <2>1. Depth \in Nat /\ Depth <= 5
    BY <1>1, InTheLoop
  <2>2. Depth - 1 \in Nat /\ Depth - 1 # 0 /\ Depth - 1 <= 5
    BY <1>1, <2>1
  <2>3. QED
    BY <1>11, <2>2
<1>13. QED
  BY <1>1, <1>10, <1>11, <1>12, StillSplitting

LEMMA ReturnAllSplits == ASSUME SplitInv, ReturnAll PROVE SplitInv'
<1> DEFINE f == Flushed(Current)
           got == Overlapped(f.done)
           z == Len(passage)
<1>1. /\ frames # <<>> /\ UNCHANGED <<passage, overlap, chunks>>
      /\ Current.at > Current.to /\ Depth = 1
      /\ frames' = <<>> /\ pieces' = got
  BY DEF ReturnAll, Read
<1>2. Covers(passage, overlap, f.done, Start(frames, Depth), Current.at)
  BY <1>1, FlushedCall
<1> HIDE DEF f
<1>3. /\ passage \in Seq(Characters) /\ overlap \in Nat /\ chunks = <<>> /\ passage # <<>>
      /\ z \in Nat
  BY <1>1, SeqDomain DEF SplitInv
<1>4. Start(frames, Depth) = 1 /\ Current.at = z + 1
  <2>1. Start(frames, Depth) = 1
    BY <1>1 DEF Start
  <2>2. Current.to = z
    BY <1>1, InTheLoop DEF Nested
  <2>3. QED
    BY <1>1, <1>3, <2>1, <2>2, InTheLoop
<1>5. Covers(passage, overlap, got, 1, z + 1)
  BY <1>2, <1>3, <1>4, OverlappedCovers
<1> HIDE DEF got
<1>6. \A p \in 1 .. 1 - 1 : Blank(passage[p])
  OBVIOUS
<1>7. Covers(passage, overlap, <<>>, 1, 1) /\ 1 \in 1 .. z + 1
  BY <1>3, <1>6, CoversBlank
<1>8. Nested(passage, overlap, <<>>) /\ Len(<<>>) = 0
  BY DEF Nested
<1>9. /\ passage' = passage /\ overlap' = overlap /\ chunks' = <<>> /\ frames' = <<>> /\ pieces' = got
  BY <1>1, <1>3
<1>10. \E b \in 1 .. Len(passage') + 1 :
           /\ Covers(passage', overlap', chunks', 1, b)
           /\ Covers(passage', overlap', pieces', b, Len(passage') + 1)
  BY <1>5, <1>7, <1>9
<1>11. QED
  BY <1>3, <1>8, <1>9, <1>10 DEF SplitInv, Depth

LEMMA SplitPassageSplits == ASSUME SplitInv, SplitPassage PROVE SplitInv'
<1> DEFINE z == Len(passage')
<1>1. /\ passage = <<>> /\ frames = <<>> /\ pieces = <<>> /\ chunks = <<>>
      /\ chunks' = <<>> /\ overlap' \in Nat
  BY SizeIsNumber DEF SplitPassage, SplitInv
<1>2. PICK n \in 1 .. MaxPassage : passage' \in [1 .. n -> Characters]
  BY DEF SplitPassage
<1>3. /\ passage' \in Seq(Characters) /\ z = n /\ DOMAIN passage' = 1 .. z /\ z \in Nat /\ z >= 1
      /\ passage' # <<>>
  <2>1. n \in Nat
    BY <1>2, SizeIsNumber
  <2>2. passage' \in Seq(Characters)
    BY <1>2, <2>1
  <2>3. DOMAIN passage' = 1 .. n /\ z \in Nat /\ DOMAIN passage' = 1 .. z
    BY <1>2, <2>2, SeqDomain
  <2>4. z = n
    BY <1>2, <2>1, <2>2
  <2>5. passage' # <<>>
    BY <1>2, <2>1, <2>4
  <2>6. QED
    BY <1>2, <2>1, <2>2, <2>3, <2>4, <2>5
<1>4. IF \A p \in DOMAIN passage' : Blank(passage'[p]) THEN UNCHANGED <<frames, pieces>>
      ELSE IF z <= MaxSize
      THEN pieces' = <<Piece(1, z)>> /\ UNCHANGED frames
      ELSE frames' = <<Call(1, z)>> /\ UNCHANGED pieces
  BY DEF SplitPassage
<1>5. /\ Covers(passage', overlap', <<>>, 1, 1) /\ 1 \in 1 .. z + 1 /\ Len(<<>>) = 0
      /\ Nested(passage', overlap', <<>>)
  <2>1. \A p \in 1 .. 1 - 1 : Blank(passage'[p])
    OBVIOUS
  <2>2. Nested(passage', overlap', <<>>)
    BY DEF Nested
  <2>3. QED
    BY <1>1, <1>3, <2>1, <2>2, CoversBlank
<1>6. ASSUME frames' = <<>>, Covers(passage', overlap', pieces', 1, z + 1) PROVE SplitInv'
  <2>1. \E b \in 1 .. z + 1 : /\ Covers(passage', overlap', chunks', 1, b)
                              /\ Covers(passage', overlap', pieces', b, z + 1)
    BY <1>1, <1>5, <1>6
  <2>2. QED
    BY <1>1, <1>3, <1>5, <1>6, <2>1 DEF SplitInv, Depth
<1>7. CASE \A p \in DOMAIN passage' : Blank(passage'[p])
  <2>1. frames' = <<>> /\ pieces' = <<>>
    BY <1>1, <1>4, <1>7
  <2>2. \A p \in 1 .. (z + 1) - 1 : Blank(passage'[p])
    BY <1>3, <1>7
  <2>3. Covers(passage', overlap', <<>>, 1, z + 1)
    BY <1>1, <1>3, <2>2, CoversBlank
  <2>4. QED
    BY <1>6, <2>1, <2>3
<1>8. CASE ~(\A p \in DOMAIN passage' : Blank(passage'[p])) /\ z <= MaxSize
  <2>1. frames' = <<>> /\ pieces' = <<Piece(1, z)>>
    BY <1>1, <1>4, <1>8
  <2>2. z - 1 + 1 <= MaxSize
    BY <1>3, <1>8
  <2>3. Covers(passage', overlap', <<Piece(1, z)>>, 1, z + 1)
    BY <1>1, <1>3, <2>2, CoversPiece
  <2>4. QED
    BY <1>6, <2>1, <2>3
<1>9. CASE ~(\A p \in DOMAIN passage' : Blank(passage'[p])) /\ ~(z <= MaxSize)
  <2> DEFINE c == Call(1, z)
  <2>1. frames' = <<c>> /\ pieces' = <<>>
    BY <1>1, <1>4, <1>9
  <2>2. c \in CallSet /\ c.packed = 1 /\ c.at = 1 /\ c.to = z /\ c.done = <<>>
    <3>1. <<>> \in PieceLists
      BY DEF PieceLists
    <3>2. QED
      BY <1>3, <3>1 DEF Call, CallSet
  <2> HIDE DEF c
  <2>3. /\ <<c>> \in Seq(CallSet) /\ Len(<<c>>) = 1 /\ <<c>>[1] = c /\ <<c>> # <<>>
    BY <2>2
  <2>4. Nested(passage', overlap', <<c>>)
    <3> SUFFICES ASSUME NEW k \in 1 .. Len(<<c>>)
                 PROVE  /\ Start(<<c>>, k) <= <<c>>[k].packed
                        /\ <<c>>[k].packed <= <<c>>[k].at
                        /\ <<c>>[k].at <= <<c>>[k].to + 1
                        /\ Covers(passage', overlap', <<c>>[k].done, Start(<<c>>, k), <<c>>[k].packed)
                        /\ <<c>>[k].to = IF k = 1 THEN z ELSE <<c>>[k - 1].at - 1
      BY <2>3 DEF Nested
    <3>1. k = 1
      BY <2>3
    <3>2. Start(<<c>>, k) = 1 /\ <<c>>[k] = c
      BY <2>3, <3>1 DEF Start
    <3>3. QED
      BY <1>3, <1>5, <2>2, <3>1, <3>2
  <2>5. Depth' = 1 /\ BufLen' = 0
    <3>1. Depth' = 1
      BY <2>1, <2>3 DEF Depth
    <3>2. Current' = c
      BY <2>1, <2>3, <3>1 DEF Current
    <3>3. QED
      BY <2>2, <3>1, <3>2 DEF BufLen
  <2>6. QED
    BY <1>1, <1>3, <2>1, <2>3, <2>4, <2>5, SizeIsNumber DEF SplitInv
<1>10. QED
  BY <1>7, <1>8, <1>9

\* The first piece covers the text up to its end, and the others the rest.
LEMMA HeadCovers ==
    ASSUME NEW t, NEW n \in Nat, NEW b \in Int, NEW c \in Int, NEW s, Covers(t, n, s, b, c), s # <<>>
    PROVE  LET h == Head(s)
               e == Last(h.text) + 1
           IN  /\ h \in PieceSet /\ e \in Int /\ b < e /\ e <= c
               /\ \A p \in Own(h) : p \in ToSet(h.text)
               /\ Covers(t, n, <<h>>, b, e) /\ Covers(t, n, Tail(s), e, c)
<1> DEFINE h == Head(s)
           r == Tail(s)
           z == Len(s)
           l == Last(h.text)
           e == l + 1
<1>1. /\ s \in Seq(PieceSet) /\ z \in Nat /\ DOMAIN s = 1 .. z /\ z >= 1
  BY SeqDomain DEF Covers, PieceLists
<1>2. /\ h = s[1] /\ h \in PieceSet /\ r \in Seq(PieceSet) /\ Len(r) = z - 1
      /\ \A i \in 1 .. z - 1 : r[i] = s[i + 1]
      /\ DOMAIN r = 1 .. z - 1
  BY <1>1, HeadTailProperties, SeqDomain
<1>3. \A i \in 1 .. z : /\ Sound(n, s[i]) /\ b <= s[i].from /\ Last(s[i].text) < c
                        /\ s[i].from \in Int /\ Last(s[i].text) \in Int
                        /\ s[i].from <= Last(s[i].text)
  BY <1>1, SoundPiece DEF Covers
<1>4. 1 \in 1 .. z /\ \A i \in 1 .. z - 1 : i + 1 \in 1 .. z /\ 1 < i + 1
  BY <1>1
<1>5. \A i, j \in 1 .. z : i < j => Last(s[i].text) < s[j].from
  BY <1>1 DEF Covers
<1>6. /\ Sound(n, h) /\ b <= h.from /\ l < c /\ h.from \in Int /\ l \in Int /\ h.from <= l
      /\ Own(h) = h.from .. l
      /\ \A p \in Own(h) : p \in ToSet(h.text)
  BY <1>2, <1>3, <1>4, SoundPiece DEF Own
<1> HIDE DEF r, z, h, l
<1>7. e \in Int /\ b < e /\ e <= c
  BY <1>6
<1>8. Covers(t, n, <<h>>, b, e)
  <2>1. <<h>> \in PieceLists /\ DOMAIN <<h>> = {1} /\ <<h>>[1] = h
    BY <1>2 DEF PieceLists
  <2>2. \A p \in b .. e - 1 : Blank(t[p]) \/ p \in Own(h)
    <3> SUFFICES ASSUME NEW p \in b .. e - 1, ~Blank(t[p]) PROVE p \in Own(h)
      OBVIOUS
    <3>1. p \in b .. c - 1 /\ p <= l
      BY <1>6
    <3>2. PICK i \in 1 .. z : p \in Own(s[i])
      BY <1>1, <3>1 DEF Covers
    <3>3. s[i].from <= p
      BY <1>3, <3>2 DEF Own
    <3>4. i = 1
      <4> SUFFICES ASSUME i # 1 PROVE FALSE
        OBVIOUS
      <4>1. 1 < i
        BY <1>1
      <4>2. l < s[i].from
        BY <1>2, <1>4, <1>5, <4>1 DEF l
      <4>3. QED
        BY <1>3, <1>6, <3>1, <3>3, <4>2
    <3>5. QED
      BY <1>2, <3>2, <3>4
  <2>3. Last(h.text) < e
    BY <1>6 DEF l
  <2> DEFINE q == <<h>>
  <2> HIDE DEF q, e
  <2>4. Covers(t, n, q, b, e)
    BY <1>6, <2>1, <2>2, <2>3 DEF Covers, q
  <2>5. QED
    BY <2>4 DEF q
<1>9. Covers(t, n, r, e, c)
  <2>1. r \in PieceLists
    BY <1>2 DEF PieceLists
  <2>2. \A i \in 1 .. z - 1 : Sound(n, r[i]) /\ e <= r[i].from /\ Last(r[i].text) < c
    <3> SUFFICES ASSUME NEW i \in 1 .. z - 1
                 PROVE  Sound(n, r[i]) /\ e <= r[i].from /\ Last(r[i].text) < c
      OBVIOUS
    <3>1. r[i] = s[i + 1] /\ i + 1 \in 1 .. z
      BY <1>2, <1>4
    <3>2. l < s[i + 1].from
      BY <1>2, <1>4, <1>5 DEF l
    <3>3. QED
      BY <1>3, <1>6, <3>1, <3>2
  <2>3. \A i, j \in 1 .. z - 1 : i < j => Last(r[i].text) < r[j].from
    <3> SUFFICES ASSUME NEW i \in 1 .. z - 1, NEW j \in 1 .. z - 1, i < j
                 PROVE  Last(r[i].text) < r[j].from
      OBVIOUS
    <3>1. i + 1 < j + 1
      BY <1>1
    <3>2. QED
      BY <1>2, <1>4, <1>5, <3>1
  <2>4. \A p \in e .. c - 1 : Blank(t[p]) \/ \E i \in 1 .. z - 1 : p \in Own(r[i])
    <3> SUFFICES ASSUME NEW p \in e .. c - 1, ~Blank(t[p])
                 PROVE  \E i \in 1 .. z - 1 : p \in Own(r[i])
      OBVIOUS
    <3>1. p \in b .. c - 1 /\ ~(p <= l)
      BY <1>6, <1>7
    <3>2. PICK i \in 1 .. z : p \in Own(s[i])
      BY <1>1, <3>1 DEF Covers
    <3>3. i # 1
      BY <1>2, <1>6, <3>1, <3>2
    <3>4. i - 1 \in 1 .. z - 1 /\ (i - 1) + 1 = i
      BY <1>1, <3>3
    <3>5. r[i - 1] = s[i]
      BY <1>2, <3>4
    <3>6. QED
      BY <3>2, <3>4, <3>5
  <2>5. QED
    BY <1>2, <2>1, <2>2, <2>3, <2>4 DEF Covers
<1>10. QED
  BY <1>2, <1>6, <1>7, <1>8, <1>9 DEF h, l, r

LEMMA TakePieceSplits == ASSUME SplitInv, TakePiece PROVE SplitInv'
<1> DEFINE h == Head(pieces)
           e == Last(h.text) + 1
           z == Len(passage)
<1>1. /\ pieces # <<>> /\ UNCHANGED <<passage, overlap, frames>>
      /\ chunks' = IF \A p \in ToSet(h.text) : Blank(passage[p])
                   THEN chunks ELSE Append(chunks, h)
      /\ pieces' = Tail(pieces)
  BY DEF TakePiece
<1>2. /\ frames = <<>> /\ passage # <<>> /\ passage \in Seq(Characters) /\ overlap \in Nat /\ z \in Nat
      /\ Nested(passage, overlap, frames) /\ Depth <= 5
  BY <1>1, SeqDomain DEF SplitInv
<1>3. PICK b \in 1 .. z + 1 : /\ Covers(passage, overlap, chunks, 1, b)
                              /\ Covers(passage, overlap, pieces, b, z + 1)
  BY <1>2 DEF SplitInv
<1>4. b \in Int /\ 1 <= b
  BY <1>2, <1>3
<1>5. /\ h \in PieceSet /\ e \in Int /\ b < e /\ e <= z + 1
      /\ \A p \in Own(h) : p \in ToSet(h.text)
      /\ Covers(passage, overlap, <<h>>, b, e) /\ Covers(passage, overlap, Tail(pieces), e, z + 1)
  <2>1. b \in Int /\ z + 1 \in Int
    BY <1>2, <1>4
  <2>2. QED
    BY <1>1, <1>2, <1>3, <2>1, HeadCovers
<1> HIDE DEF h, e
<1>6. chunks \in Seq(PieceSet)
  BY <1>3 DEF Covers, PieceLists
<1>7. Covers(passage, overlap, chunks', 1, e)
  <2>1. CASE \A p \in ToSet(h.text) : Blank(passage[p])
    <3>1. \A p \in b .. e - 1 : Blank(passage[p])
      <4>1. DOMAIN <<h>> = {1} /\ <<h>>[1] = h
        OBVIOUS
      <4>2. \A p \in b .. e - 1 : Blank(passage[p]) \/ p \in Own(h)
        BY <1>5, <4>1 DEF Covers
      <4>3. QED
        BY <1>5, <2>1, <4>2
    <3>2. Covers(passage, overlap, <<>>, b, e)
      BY <1>2, <1>4, <1>5, <3>1, CoversBlank
    <3>3. Covers(passage, overlap, chunks \o <<>>, 1, e)
      <4>1. 1 \in Int /\ b \in Int /\ e \in Int /\ 1 <= b /\ b <= e
        BY <1>4, <1>5
      <4>2. QED
        BY <1>2, <1>3, <3>2, <4>1, CoversBoth
    <3>4. QED
      BY <1>1, <1>6, <2>1, <3>3, ConcatEmptySeq
  <2>2. CASE ~(\A p \in ToSet(h.text) : Blank(passage[p]))
    <3>1. Covers(passage, overlap, chunks \o <<h>>, 1, e)
      BY <1>2, <1>3, <1>4, <1>5, CoversBoth
    <3>2. chunks' = chunks \o <<h>>
      BY <1>1, <1>5, <1>6, <2>2, AppendIsConcat
    <3>3. QED
      BY <3>1, <3>2
  <2>3. QED
    BY <2>1, <2>2
<1>8. e \in 1 .. z + 1
  BY <1>4, <1>5
<1>9. passage' = passage /\ overlap' = overlap /\ frames' = frames /\ pieces' = Tail(pieces)
  BY <1>1
<1>10. \E x \in 1 .. Len(passage') + 1 :
           /\ Covers(passage', overlap', chunks', 1, x)
           /\ Covers(passage', overlap', pieces', x, Len(passage') + 1)
  BY <1>5, <1>7, <1>8, <1>9
<1>11. QED
  BY <1>2, <1>9, <1>10 DEF SplitInv, Depth

LEMMA SplitStep == SplitInv /\ [ChunkNext]_chunkVars => SplitInv'
<1> SUFFICES ASSUME SplitInv, [ChunkNext]_chunkVars PROVE SplitInv'
  OBVIOUS
<1>1. CASE SplitPassage
  BY <1>1, SplitPassageSplits
<1>2. CASE ExtendBuffer
  BY <1>2, ExtendBufferSplits
<1>3. CASE FlushBuffer
  BY <1>3, FlushBufferSplits
<1>4. CASE SplitPart
  BY <1>4, SplitPartSplits
<1>5. CASE ReturnPieces
  BY <1>5, ReturnPiecesSplits
<1>6. CASE ReturnAll
  BY <1>6, ReturnAllSplits
<1>7. CASE TakePiece
  BY <1>7, TakePieceSplits
<1>8. CASE UNCHANGED chunkVars
  BY <1>8 DEF SplitInv, Depth, BufLen, Current, chunkVars
<1>9. QED
  BY <1>1, <1>2, <1>3, <1>4, <1>5, <1>6, <1>7, <1>8 DEF ChunkNext

LEMMA SplitAlways == ChunkSpec => []SplitInv
<1>1. QED
  BY SplitStarts, SplitStep, PTL DEF ChunkSpec

\* recursive_split keeps its bound whatever the passage: no chunk is empty or
\* longer than MAX_CHUNK and CHUNK_OVERLAP together, at any depth of the
\* recursion.
THEOREM ChunksAlwaysFit == ChunkSpec => []ChunksFit
<1>1. SplitInv => ChunksFit
  <2> SUFFICES ASSUME SplitInv, NEW i \in DOMAIN chunks
               PROVE  Len(chunks[i].text) \in 1 .. MaxSize + overlap
    BY DEF ChunksFit
  <2>1. frames = <<>>
    BY DEF SplitInv
  <2>2. PICK b \in 1 .. Len(passage) + 1 : Covers(passage, overlap, chunks, 1, b)
    BY <2>1 DEF SplitInv
  <2>3. QED
    BY <2>2 DEF Covers, Sound
<1>2. QED
  BY <1>1, SplitAlways, PTL

\* The chunks of a passage keep every word of it, in order, and repeat none
\* but for the overlap of recursive_split's last loop.
THEOREM WordsAreAlwaysKept == ChunkSpec => []WordsAreKept
<1>1. SplitInv => WordsAreKept
  <2> SUFFICES ASSUME SplitInv PROVE WordsAreKept
    OBVIOUS
  <2>1. CASE frames # <<>>
    <3>1. chunks = <<>>
      BY <2>1 DEF SplitInv
    <3>2. DOMAIN chunks = {}
      BY <3>1
    <3>3. QED
      BY <2>1, <3>2 DEF WordsAreKept
  <2>2. CASE frames = <<>>
    <3>1. PICK b \in 1 .. Len(passage) + 1 :
              /\ Covers(passage, overlap, chunks, 1, b)
              /\ Covers(passage, overlap, pieces, b, Len(passage) + 1)
      BY <2>2 DEF SplitInv
    <3>2. Len(passage) \in Nat /\ DOMAIN passage = 1 .. Len(passage)
      BY SeqDomain DEF SplitInv
    <3>3. ASSUME pieces = <<>>, NEW p \in DOMAIN passage
          PROVE  Blank(passage[p]) \/ \E i \in DOMAIN chunks : p \in Own(chunks[i])
      <4>1. p \in 1 .. b - 1 \/ p \in b .. (Len(passage) + 1) - 1
        BY <3>1, <3>2, <3>3
      <4>2. DOMAIN pieces = {}
        BY <3>3
      <4>3. QED
        BY <3>1, <4>1, <4>2 DEF Covers
    <3>4. \A i, j \in DOMAIN chunks : i < j => Last(chunks[i].text) < chunks[j].from
      BY <3>1 DEF Covers
    <3>5. ASSUME NEW i \in DOMAIN chunks
          PROVE  LET text == chunks[i].text
                     from == chunks[i].from
                 IN  \E m \in 0 .. Len(text) - 1 :
                        /\ \A k \in 1 .. m : text[k] < from
                        /\ \A k \in m + 1 .. Len(text) : text[k] = from + k - m - 1
      BY <3>1 DEF Covers, Sound
    <3>6. QED
      BY <3>3, <3>4, <3>5 DEF WordsAreKept
  <2>3. QED
    BY <2>1, <2>2
<1>2. QED
  BY <1>1, SplitAlways, PTL

=============================================================================
