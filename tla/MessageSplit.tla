---------------------------- MODULE MessageSplit ----------------------------
(***************************************************************************)
(* SplitMessage (pkg/channels/split.go): how a reply that is longer than a *)
(* channel allows is cut into chunks at newlines or spaces, and how a      *)
(* fenced code block that does not fit is closed at the end of one chunk   *)
(* and opened again in the next.  One action per way to cut, so that a     *)
(* step is one iteration of the loop; indices count from 0 as in the code. *)
(*                                                                         *)
(* A rune is a number: a space, a newline, a tick (three of them make a    *)
(* fence), or a letter.  The letters of a text are all different and       *)
(* ascend, so that a chunk tells which part of the text it holds.  Texts   *)
(* are all the sequences of Size words, blanks and fences.  The sizes that *)
(* are literals in the code are constants here.                            *)
(***************************************************************************)
EXTENDS Integers, FiniteSets, SequencesExt

CONSTANTS
    Size,           \* words, blanks and fences of a reply
    maxLen,
    minBuffer,      \* 50: room that is left for a closing fence
    newlineWindow,  \* 200: how far back a newline is looked for
    spaceWindow,    \* 100
    few             \* 20: too little code to be worth a chunk

ConstantsAssumption ==
    /\ {Size, minBuffer, newlineWindow, spaceWindow, few} \subseteq Nat
    /\ maxLen \in Nat /\ maxLen > 5

Space == 1
Newline == 2
Tick == 3
Letters == Nat \ 0..9
Blank == {Space, Newline}
Fence == <<Tick, Tick, Tick>>

Word(i) == [k \in 1..4 |-> 10 * i + k]

Texts == {FlattenSeq([i \in 1..Size |-> IF t[i] = << >> THEN Word(i) ELSE t[i]]) :
             t \in [1..Size -> {<< >>, <<Space>>, <<Newline>>, Fence}]}

VARIABLES
    text,       \* the reply, as it came
    runes,      \* what is split, rewritten when a block is opened again
    start,      \* where the next chunk begins
    messages,   \* the chunks so far; their letters tell the order
    pc          \* "loop" or "returned"

vars == <<text, runes, start, messages, pc>>

TypeOK ==
    /\ text \in Seq(Nat)
    /\ runes \in Seq(Nat) /\ messages \subseteq Seq(Nat)
    /\ start \in 0..Len(runes)
    /\ pc \in {"loop", "returned"}

Init ==
    /\ text \in Texts
    /\ runes = text /\ start = 0 /\ messages = {} /\ pc = "loop"

-----------------------------------------------------------------------------
totalLen == Len(runes)
Slice(s, a, b) == SubSeq(s, a + 1, b)

\* findLastNewlineInRange, findLastSpaceInRange: before a when there is none.
FindLast(S, a, b, window) ==
    Max({a - 1} \cup {i \in Max({b - window, a})..(b - 1) : runes[i + 1] \in S})

IsFence(s, i) == i + 3 <= Len(s) /\ Slice(s, i, i + 3) = Fence

\* Where the fences of s are from a on, read from the left; the last ends before b.
FencesIn(s, a, b) ==
    LET f[i \in a..b] ==
            IF i + 2 >= b THEN {}
            ELSE IF IsFence(s, i) THEN {i} \cup f[i + 3] ELSE f[i + 1]
    IN  f[a]

\* findLastUnclosedCodeBlockInRange
UnclosedIn(a, b) ==
    LET fences == FencesIn(runes, a, b)
    IN  IF Cardinality(fences) % 2 = 1 THEN Max(fences) ELSE -1

\* findNextClosingCodeBlockInRange
\* Mutant: the index of the fence, not the one after it.
ClosingFromFence(a) ==
    LET found == {i \in a..(totalLen - 3) : IsFence(runes, i)}
    IN  IF found = {} THEN -1 ELSE Min(found)

ClosingFrom(a) ==
    LET found == {i \in a..(totalLen - 3) : IsFence(runes, i)}
    IN  IF found = {} THEN -1 ELSE Min(found) + 3

\* findNewlineFrom
NewlineFrom(a) ==
    LET found == {i \in a..(totalLen - 1) : runes[i + 1] = Newline}
    IN  IF found = {} THEN -1 ELSE Min(found)

TrimRight(s) == SubSeq(s, 1, Max({0} \cup {i \in DOMAIN s : s[i] \notin Blank}))
TrimSpace(s) == Reverse(TrimRight(Reverse(TrimRight(s))))

-----------------------------------------------------------------------------
codeBlockBuffer == Min({Max({maxLen \div 10, minBuffer}), maxLen \div 2})
effectiveLimit == Max({maxLen - codeBlockBuffer, maxLen \div 2})

\* The last newline, or space, that is not far before the limit; or the limit.
NaturalEnd(a, end) ==
    LET newline == FindLast({Newline}, a, end, newlineWindow)
        space == FindLast({Space}, a, end, spaceWindow)
    IN  CASE newline > a -> newline
          [] newline <= a /\ space > a -> space
          [] OTHER -> end

msgEnd == NaturalEnd(start, start + effectiveLimit)
unclosedIdx == UnclosedIn(start, msgEnd)
closingIdx == ClosingFrom(msgEnd)

\* The line that opens the block, and where it ends.
headerEnd == NewlineFrom(unclosedIdx)
header ==
    TrimSpace(Slice(runes, unclosedIdx, IF headerEnd = -1 THEN unclosedIdx + 3 ELSE headerEnd))
headerEndIdx == IF headerEnd = -1 THEN unclosedIdx + Len(header) ELSE headerEnd

\* A chunk ends at e; the next one begins after the blanks.
Cut(e) ==
    /\ messages' = messages \cup {Slice(runes, start, e)}
    /\ start' = Min({totalLen} \cup {i \in e..(totalLen - 1) : runes[i + 1] \notin Blank})
    /\ UNCHANGED <<text, runes, pc>>

\* A block is closed at e and opened again at the head of what is left.
CutInside(e) ==
    /\ messages' = messages \cup {TrimRight(Slice(runes, start, e)) \o <<Newline>> \o Fence}
    /\ runes' = TrimSpace(header \o <<Newline>> \o Slice(runes, e, totalLen))
    /\ start' = 0
    /\ UNCHANGED <<text, pc>>

-----------------------------------------------------------------------------
Return ==
    /\ pc = "loop" /\ totalLen - start <= maxLen
    /\ messages' = messages \cup ({Slice(runes, start, totalLen)} \ {<< >>})
    /\ pc' = "returned"
    /\ UNCHANGED <<text, runes, start>>

TooLong == pc = "loop" /\ totalLen - start > maxLen

SplitNaturally == TooLong /\ unclosedIdx < 0 /\ Cut(msgEnd)

\* The end of the block fits.
Fits == closingIdx > 0 /\ closingIdx - start <= maxLen

ExtendToClosing == TooLong /\ unclosedIdx >= 0 /\ Fits /\ Cut(closingIdx)

\* It does not: the chunk ends inside the block, if there is enough of it.
innerLimit == Min({start + maxLen - 5, totalLen})

BlockTooLong == TooLong /\ unclosedIdx >= 0 /\ ~Fits
EnoughInside == msgEnd > headerEndIdx + few

SplitInside ==
    /\ BlockTooLong /\ EnoughInside
    /\ LET betterEnd == FindLast({Newline}, start, innerLimit, newlineWindow)
       IN  CutInside(IF betterEnd > headerEndIdx THEN betterEnd ELSE innerLimit)

\* Or before the block, at a blank or at its fence; or inside its first line,
\* wherever that is.
EndBefore == NaturalEnd(start, unclosedIdx)
BlankBefore == EndBefore \in (start + 1)..(unclosedIdx - 1)
EnoughBefore == unclosedIdx - start > few

SplitBefore ==
    /\ BlockTooLong /\ ~EnoughInside
    /\ BlankBefore \/ EnoughBefore
    /\ Cut(EndBefore)

SplitFirstLine ==
    /\ BlockTooLong /\ ~EnoughInside
    /\ ~BlankBefore /\ ~EnoughBefore
    /\ CutInside(innerLimit)

Next ==
    \/ Return \/ SplitNaturally \/ ExtendToClosing
    \/ SplitInside \/ SplitBefore \/ SplitFirstLine

Spec == Init /\ [][Next]_vars

-----------------------------------------------------------------------------
(* Properties                                                              *)

\* "message chunks that each respect maxLen".
RespectsMaxLen == \A m \in messages : Len(m) <= maxLen

FencesOf(s) == FencesIn(s, 0, Len(s))

\* The first line of the block that a fence opens: its language.
FirstLine(s, fence) == {i \in fence..(Len(s) - 1) : \A j \in fence..i : s[j + 1] # Newline}
FirstLines == {text[i + 1] : i \in UNION {FirstLine(text, f) : f \in FencesOf(text)}}

\* Every letter is in a chunk or still to come, and what is to come follows
\* what is in the chunks; only first lines of blocks are repeated.
LettersOf(s) == ToSet(s) \cap Letters
Sent == UNION {LettersOf(m) : m \in messages}
Left == IF pc = "loop" THEN LettersOf(Slice(runes, start, totalLen)) ELSE {}

ContentKept ==
    /\ Sent \cup Left = LettersOf(text)
    /\ \A x \in Sent \ FirstLines, y \in Left \ FirstLines : x < y

\* "avoid splitting fenced code blocks": where fences begin lines and are in
\* pairs, they are so in every chunk.
Balanced(s) == Cardinality(FencesOf(s)) % 2 = 0
FencesBeginLines == \A f \in FencesOf(text) : f = 0 \/ text[f] = Newline
BlocksClosed == Balanced(text) /\ FencesBeginLines => \A m \in messages : Balanced(m)

\* A block whose first line is short compared with a chunk: with the sizes of
\* the code, shorter than maxLen - 206.
ShortFirstLines ==
    \A f \in FencesOf(text) : Cardinality(FirstLine(text, f)) + 1 < maxLen - 5 - newlineWindow

SplitInv == TypeOK /\ RespectsMaxLen /\ ContentKept /\ BlocksClosed

\* Every iteration leaves less to split, so that the loop comes to an end: a
\* block that is opened again does not bring back as much as was cut off.
Remaining(s, a) == Len(s) - a
Shortens == [][pc' = "returned" \/ Remaining(runes', start') < Remaining(runes, start)]_vars

\* SplitMessage "returns a slice of message chunks": the loop reads runes and
\* start only, so that an iteration which leaves both as they are is repeated for
\* ever.  Does not hold where a block has a long first line.
Returns == [][pc' = "returned" \/ <<runes', start'>> # <<runes, start>>]_vars
=============================================================================
