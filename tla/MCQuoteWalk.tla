----------------------------- MODULE MCQuoteWalk -----------------------------
(* The searches of a swap along the tick arrays of its quote, from every tick  *)
(* at which it may stand, and for every set of existing arrays and initialized *)
(* ticks.                                                                      *)
EXTENDS MCSwapMath, QuoteTickArrays

VARIABLE walk   \* the arrays, what is in them, and where the swap is; or None

\* Which tick arrays exist, and which of their ticks are initialized.
Accounts ==
    UNION {{<<existing, ticks>> : ticks \in
               SUBSET {t \in UsableTicks :
                          \E s \in existing : check_in_array_bounds(s, t)}} :
           existing \in SUBSET StartTicks}

\* A pool's current tick may be one below the lowest.
WalkInit ==
    \E accounts \in Accounts, t \in MIN_TICK_INDEX - 1 .. MAX_TICK_INDEX,
       a_to_b \in BOOLEAN :
        LET arrays == TickArraySequence(getTickArrayPublicKeys(t, a_to_b), accounts[1])
        IN  /\ arrays # <<>>
            /\ isValidTickArray0(arrays, t, a_to_b)
            /\ walk = [arrays |-> arrays, initialized |-> accounts[2],
                       a_to_b |-> a_to_b, tick |-> t, array_index |-> 1, touched |-> 0]

\* The search of the program with the first n arrays.
ProgramFinds(n, k, next) ==
    get_next_initialized_tick_index(SubSeq(walk.arrays, 1, n), walk.array_index,
        walk.tick, walk.a_to_b, walk.initialized, k, next)

Touched ==
    LET now == TouchedArrays(walk.arrays, walk.tick, walk.a_to_b, walk.initialized)
    IN  IF now > walk.touched THEN now ELSE walk.touched

\* The swap reaches the tick that was found, and searches on.  It does not when
\* that is the lowest or the highest one: no limit lies beyond their prices.
WalkStep ==
    /\ walk # None
    /\ SearchInBounds(walk.arrays, walk.tick, walk.a_to_b)
    /\ \E k \in DOMAIN walk.arrays,
          next \in TickIndex \ {MIN_TICK_INDEX, MAX_TICK_INDEX} :
          /\ ProgramFinds(Len(walk.arrays), k, next)
          /\ walk' = [walk EXCEPT
                !.tick = IF walk.a_to_b THEN next - 1 ELSE next,
                !.array_index = NextArrayIndex(walk.arrays, k, next, walk.a_to_b),
                !.touched = Touched]

\* Walks alone, apart from what else a run enumerates.
WalkSpec == WalkInit /\ [][WalkStep]_walk

-----------------------------------------------------------------------------
(* At each tick of a swap the quote finds the tick that the program will find, *)
(* although it has no index of the current array and knows of no price edge,   *)
(* and the arrays it has touched by then suffice: with those or with more the  *)
(* program's search has the same result.  Where the quote gives up, the        *)
(* program does (TickArraySequence, the tickArray0..2 of a quote).             *)
QuotedArraysSuffice ==
    walk # None =>
        IF SearchInBounds(walk.arrays, walk.tick, walk.a_to_b)
        THEN LET next == findNextInitializedTickIndex(
                            walk.arrays, walk.tick, walk.a_to_b, walk.initialized)
             IN  \A n \in Touched .. Len(walk.arrays) :
                    \E k \in 1 .. n : ProgramFinds(n, k, next)
        ELSE \A n, k \in DOMAIN walk.arrays, next \in TickIndex :
                ~ProgramFinds(n, k, next)
=============================================================================
