--------------------------- MODULE ScratchBuffer ---------------------------
(***************************************************************************)
(* One of the parser's scratch buffers (exprBuf, stmtBuf, declBuf, ...,    *)
(* parser.go) with the arena its finished lists are copied to. All parse   *)
(* functions that build a list of the same kind share the buffer as a      *)
(* stack: a builder takes the length of the buffer as its mark, appends,   *)
(* and copies out and cuts off what is above the mark. While an element is *)
(* parsed, nested builders use the buffer above it. The parser itself, the *)
(* buffer with it, is recycled from one parse to the next.                 *)
(*                                                                         *)
(* The usual line is  p.xBuf = append(p.xBuf, p.parseElement()).  Go does  *)
(* not say whether the operand p.xBuf is read before or after the call, so *)
(* both happen here.                                                       *)
(***************************************************************************)
EXTENDS Arena, SequencesExt

CONSTANTS
    bufCap,       \* capacity of a new buffer
    MaxDepth,     \* bound: builders open at once
    MaxParses     \* bound: parses

\* The elements are numbered in the order they are parsed, up to a bound or
\* without one.
ASSUME BufferAssumption ==
    /\ bufCap \in Nat \ {0}
    /\ Elem \subseteq Nat \ {0}
    /\ \A n \in Elem : 1 .. n \subseteq Elem

VARIABLES
    buf,        \* the slice header: its array, or Nil, and its length
    builders,   \* the active builders, the outermost first
    parsing,    \* a parse is running: between getParser and putParser
    added,      \* elements parsed so far; the next element is its successor
    parses      \* parses begun

vars == <<arenaVars, buf, builders, parsing, added, parses>>

\* A builder is between two elements, or parsing one, with the header it has
\* read already or with the read still to come.
header  == [arr : Nat, len : Nat]
builder == [mark : Nat, at : {"between", "early", "late"}, read : header]

ScratchTypeOK ==
    /\ ArenaTypeOK
    /\ parsing => len > 0
    /\ buf \in header
    /\ builders \in Seq(builder)
    /\ parsing \in BOOLEAN
    /\ added \in Nat

Init ==
    /\ ArenaInit
    /\ buf = [arr |-> Nil, len |-> 0]
    /\ builders = <<>>
    /\ parsing = FALSE
    /\ added = 0
    /\ parses = 0

top == Last(builders)
setTop(b) == builders' = Append(Front(builders), b)
between == builders # <<>> /\ top.at = "between"

\* The elements of the buffer above position mark.
above(mark) == SubSeq(heap[buf.arr], mark + 1, buf.len)

-----------------------------------------------------------------------------

\* getParser: the pool hands out the parser of a former parse or a new one.
getParser ==
    /\ ~parsing
    /\ parses < MaxParses
    /\ parses' = parses + 1
    /\ parsing' = TRUE
    /\ \/ /\ buf.arr # Nil
          /\ newArena
          /\ UNCHANGED buf
       \/ /\ heap' = Append(heap, newArray(bufCap))
          /\ buf' = [arr |-> Len(heap) + 1, len |-> 0]
          /\ a' = Nil /\ len' = startLen /\ index' = startLen
          /\ UNCHANGED handed
    /\ UNCHANGED <<builders, added>>

\* putParser, when the outermost parse function has returned.
putParser ==
    /\ parsing
    /\ builders = <<>>
    /\ parsing' = FALSE
    /\ buf' = [buf EXCEPT !.len = 0]
    /\ dropArena
    /\ UNCHANGED <<builders, added, parses>>

\* mark := len(p.xBuf), at the start or while an element is being parsed.
Mark ==
    /\ parsing
    /\ ~between
    /\ Len(builders) < MaxDepth
    /\ builders' = Append(builders, [mark |-> buf.len, at |-> "between",
                                     read |-> buf])
    /\ UNCHANGED <<arenaVars, buf, parsing, added, parses>>

\* A builder calls the function that parses its next element. The bound on
\* the elements counts those that the outer builders are waiting for.
ParseElement ==
    /\ between
    /\ added + Len(builders) \in Elem
    /\ \E at \in {"early", "late"} :
          setTop([top EXCEPT !.at = at, !.read = buf])
    /\ UNCHANGED <<arenaVars, buf, parsing, added, parses>>

\* append. A full array is copied to a longer one; Go does not say how long.
AppendElement ==
    /\ builders # <<>> /\ ~between
    /\ LET b == IF top.at = "early" THEN top.read ELSE buf
           e == added + 1
       IN \/ /\ b.len < Len(heap[b.arr])
             /\ heap' = [heap EXCEPT ![b.arr][b.len + 1] = e]
             /\ buf' = [b EXCEPT !.len = b.len + 1]
          \/ /\ b.len = Len(heap[b.arr])
             /\ \E n \in b.len + 1 .. 2 * b.len :
                  heap' = Append(heap, [i \in 1 .. n |->
                            IF i <= b.len THEN heap[b.arr][i]
                            ELSE IF i = b.len + 1 THEN e ELSE Zero])
             /\ buf' = [arr |-> Len(heap) + 1, len |-> b.len + 1]
    /\ setTop([top EXCEPT !.at = "between"])
    /\ added' = added + 1
    /\ UNCHANGED <<a, len, index, handed, parsing, parses>>

\* finishXBuf up to the buffer it leaves.
finishes(list, left) ==
    /\ between
    /\ Len(handed) < MaxHanded
    /\ makeSlice(list)
    /\ buf' = [buf EXCEPT !.len = left]
    /\ builders' = Front(builders)
    /\ UNCHANGED <<parsing, added, parses>>

\* Seeded fault: the whole buffer is taken for the list.
finishBufWhole == finishes(above(0), top.mark)

\* Seeded fault: the buffer is not cut back.
finishBufUncut == finishes(above(top.mark), buf.len)

\* finishXBuf: copy the list to the arena, cut the buffer back to the mark.
finishBuf ==
    /\ between
    /\ Len(handed) < MaxHanded
    /\ makeSlice(above(top.mark))
    /\ buf' = [buf EXCEPT !.len = top.mark]
    /\ builders' = Front(builders)
    /\ UNCHANGED <<parsing, added, parses>>

\* Seeded fault: an error path leaves its elements in the buffer.
DropListUncut ==
    /\ between
    /\ builders' = Front(builders)
    /\ UNCHANGED <<arenaVars, buf, parsing, added, parses>>

\* The paths that give the list up, or take its only element out of it.
DropList ==
    /\ between
    /\ buf' = [buf EXCEPT !.len = top.mark]
    /\ builders' = Front(builders)
    /\ UNCHANGED <<arenaVars, parsing, added, parses>>

\* Everything is done that the bounds allow.
exhausted == ~parsing /\ parses = MaxParses

Next ==
    \/ getParser
    \/ putParser
    \/ Mark
    \/ ParseElement
    \/ AppendElement
    \/ finishBuf
    \/ DropList
    \/ exhausted /\ UNCHANGED vars

Spec == Init /\ [][Next]_vars

-----------------------------------------------------------------------------

\* Where the part of builder k ends: at the mark of the builder inside it.
upTo(k) == IF k = Len(builders) THEN buf.len ELSE builders[k + 1].mark

openLists ==
    [k \in 1 .. Len(builders) |->
        SubSeq(heap[buf.arr], builders[k].mark + 1, upTo(k))]

Building == INSTANCE ListBuilding
            WITH open <- openLists,
                 built <- [i \in 1 .. Len(handed) |-> handed[i].val]

\* Every list the parser builds has exactly the elements its own builder
\* added, in order, although all builders share one buffer and it moves while
\* they are at work.
BuildsLists == Building!Spec

\* A header read before the element was parsed still serves: up to its length
\* its array holds what the buffer holds, so it does not matter when the
\* operand of append is evaluated.
EarlyReadHarmless ==
    \A k \in 1 .. Len(builders) :
        LET b == builders[k]
        IN b.at = "early" =>
             /\ b.read.len = upTo(k)
             /\ SubSeq(heap[b.read.arr], 1, b.read.len)
                  = SubSeq(heap[buf.arr], 1, b.read.len)

\* A parse ends with the buffer as empty as it began, whatever errors it met.
BufferBalanced == parsing /\ builders = <<>> => buf.len = 0

-----------------------------------------------------------------------------
\* The inductive invariant: the buffer is an array of its own that holds the
\* parts of the builders one above the other, and so, up to their lengths, are
\* the arrays of the headers that were read early.

waiting(k) == builders[k].at # "between"

\* Array arr is made, the arena does not use it and nothing of a tree is in it.
ownArray(arr) ==
    /\ arr \in 1 .. Len(heap)
    /\ arr # a
    /\ \A i \in 1 .. Len(handed) : handed[i].val # <<>> => handed[i].arr # arr

\* The slice header h is that of a slice of elements.
elements(h) ==
    /\ ownArray(h.arr)
    /\ h.len <= Len(heap[h.arr])
    /\ \A i \in 1 .. h.len : heap[h.arr][i] \in Elem

BufferHoldsElements ==
    /\ buf.arr = Nil => buf.len = 0
    /\ buf.arr # Nil => elements(buf)

\* Builders exist only during a parse, and only the innermost is at work.
OneAtWork ==
    /\ builders # <<>> => parsing
    /\ parsing => buf.arr # Nil
    /\ \A k \in 1 .. Len(builders) : k < Len(builders) => waiting(k)

\* The parts lie one above the other, the lowest at the bottom.
PartsStacked ==
    /\ builders = <<>> => buf.len = 0
    /\ builders # <<>> => builders[1].mark = 0
    /\ \A k \in 1 .. Len(builders) :
          /\ builders[k].mark <= buf.len
          /\ \A j \in 1 .. k : builders[j].mark <= builders[k].mark

\* Of an early header, no more than its own part and those below are used.
EarlyReads ==
    \A k \in 1 .. Len(builders) :
        LET r == builders[k].read
        IN builders[k].at = "early" =>
             /\ elements(r)
             /\ r.len = upTo(k)
             /\ \A i \in 1 .. r.len : heap[r.arr][i] = heap[buf.arr][i]

\* There is a number left for each element that a builder is waiting for.
NumbersLeft ==
    /\ builders # <<>> /\ ~between => added + Len(builders) \in Elem
    /\ between /\ Len(builders) > 1 => added + Len(builders) - 1 \in Elem

ScratchInv ==
    /\ ScratchTypeOK
    /\ ArenaInv
    /\ BufferHoldsElements
    /\ OneAtWork
    /\ PartsStacked
    /\ EarlyReads
    /\ NumbersLeft
=============================================================================
