--------------------------- MODULE QuoteTickArrays ---------------------------
(* The SDK's tick arrays of a quote: which ones it fetches, how it searches    *)
(* them, and which ones it names for the swap instruction                      *)
(* (sdk/src/quotes/swap, utils/public).  Unlike the program it keeps no index  *)
(* of the current array, and it searches slot by slot until the arrays end.    *)
(* Constant level only.                                                        *)
EXTENDS TickArrays, Sequences

CONSTANT MAX_SWAP_TICK_ARRAYS   \* 3 in the code

\* The lowest tick is below zero, and so is the start of the array it is in.
ASSUME QuoteArraysAssumption ==
    MAX_SWAP_TICK_ARRAYS \in Nat /\ MIN_TICK_INDEX < 0

\* JavaScript's % truncates towards zero, Math.floor does not.
fromTickIndex(t) ==
    LET offset == TruncRem(t, ticks_in_array) \div tick_spacing
    IN  [arrayIndex  |-> (t \div tick_spacing) \div TICK_ARRAY_SIZE,
         offsetIndex |-> IF offset < 0 THEN TICK_ARRAY_SIZE + offset ELSE offset]

toTickIndex(index) ==
    (index.arrayIndex * TICK_ARRAY_SIZE + index.offsetIndex) * tick_spacing

getStartTickIndex(t, offset) == ((t \div ticks_in_array) + offset) * ticks_in_array

\* getStartTickIndex does not throw.
IsStart(s) ==
    /\ s >= MIN_TICK_INDEX - (TruncRem(MIN_TICK_INDEX, ticks_in_array) + ticks_in_array)
    /\ s <= MAX_TICK_INDEX

\* Up to three neighbours, beginning where the program's search will begin.
getTickArrayPublicKeys(t, a_to_b) ==
    LET from == IF a_to_b THEN t ELSE t + tick_spacing
        start == [i \in 1 .. MAX_SWAP_TICK_ARRAYS |->
                     getStartTickIndex(from, IF a_to_b THEN 1 - i ELSE i - 1)]
        n == CHOOSE n \in 0 .. MAX_SWAP_TICK_ARRAYS :
                /\ \A i \in 1 .. n : IsStart(start[i])
                /\ n < MAX_SWAP_TICK_ARRAYS => ~IsStart(start[n + 1])
    IN  SubSeq(start, 1, n)

\* What comes after an account that does not exist is dropped.
TickArraySequence(starts, existing) ==
    LET n == CHOOSE n \in 0 .. Len(starts) :
                /\ \A i \in 1 .. n : starts[i] \in existing
                /\ n < Len(starts) => starts[n + 1] \notin existing
    IN  SubSeq(starts, 1, n)

isValidTickArray0(arrays, t, a_to_b) ==
    check_in_array_bounds(arrays[1], IF a_to_b THEN t ELSE t + tick_spacing)

-----------------------------------------------------------------------------
\* The place in the sequence of the array that holds t, from 1.
LocalArrayIndex(arrays, t, a_to_b) ==
    LET distance == fromTickIndex(t).arrayIndex - fromTickIndex(arrays[1]).arrayIndex
    IN  1 + IF a_to_b THEN -distance ELSE distance

isArrayIndexInBounds(arrays, t, a_to_b) ==
    LocalArrayIndex(arrays, t, a_to_b) \in DOMAIN arrays

\* Slip: the search up includes the slot of the current tick.
SearchIndexHere(t, a_to_b) == toTickIndex(fromTickIndex(t))

\* The slot at which the search begins.
SearchSlot(t, a_to_b) ==
    toTickIndex(fromTickIndex(IF a_to_b THEN t ELSE t + tick_spacing))

\* findNextInitializedTickIndex does not throw.
SearchInBounds(arrays, t, a_to_b) ==
    isArrayIndexInBounds(arrays, SearchSlot(t, a_to_b), a_to_b)

SlotsWithTick(arrays, t, a_to_b, initialized) ==
    {u \in initialized :
        /\ isArrayIndexInBounds(arrays, u, a_to_b)
        /\ IF a_to_b THEN u <= SearchSlot(t, a_to_b) ELSE u >= SearchSlot(t, a_to_b)}

\* Where the search ends that finds none: the end of the last array.
lastIndexInArray(arrays, a_to_b) ==
    LET last == arrays[Len(arrays)]
        end == IF a_to_b THEN last ELSE last + ticks_in_array - 1
    IN  IF end > MAX_TICK_INDEX THEN MAX_TICK_INDEX
        ELSE IF end < MIN_TICK_INDEX THEN MIN_TICK_INDEX ELSE end

findNextInitializedTickIndex(arrays, t, a_to_b, initialized) ==
    LET slots == SlotsWithTick(arrays, t, a_to_b, initialized)
    IN  IF slots = {} THEN lastIndexInArray(arrays, a_to_b)
        ELSE CHOOSE u \in slots :
                \A v \in slots : IF a_to_b THEN v <= u ELSE u <= v

\* How many arrays, from the first one, the search has touched.
TouchedArrays(arrays, t, a_to_b, initialized) ==
    IF SlotsWithTick(arrays, t, a_to_b, initialized) = {} THEN Len(arrays)
    ELSE LocalArrayIndex(arrays,
            findNextInitializedTickIndex(arrays, t, a_to_b, initialized), a_to_b)
=============================================================================
